---- MODULE Spec2Model ----
(***************************************************************************)
(* Model of saleor-tma-backend: the order-placement saga of                *)
(* internal/app/tma (Service.PlaceOrder against the Saleor gateway) and    *)
(* the Telegram init-data verification of internal/telegram.               *)
(*                                                                         *)
(* Go strings that the code inspects or builds are sequences of one-char   *)
(* strings; a nil pointer / nil slice is the empty sequence <<>> and a     *)
(* non-nil pointer to x is <<x>>; a nil error is <<>>, a non-nil error is  *)
(* the sequence of the parts of its message.                               *)
(***************************************************************************)
EXTENDS Integers, Sequences, FiniteSets, TLC

(***************************************************************************)
(* Bounds of the model.                                                    *)
(***************************************************************************)
\* number of PlaceOrder invocations (sequential re-invocations and
\* concurrent requests alike)
MaxInv == 2
\* longest cart of the first invocation
MaxItems == 2

Invs == 1..MaxInv

(***************************************************************************)
(* Text helpers: fmt.Sprintf verbs and strings.TrimSpace.                  *)
(***************************************************************************)
DigitChars == <<"0", "1", "2", "3", "4", "5", "6", "7", "8", "9">>

RECURSIVE Digits(_)
Digits(n) ==
    IF n < 10 THEN <<DigitChars[n + 1]>>
    ELSE Digits(n \div 10) \o <<DigitChars[(n % 10) + 1]>>

\* a %d that loses the sign
FormatIntUnsigned(n) == IF n < 0 THEN Digits(-n) ELSE Digits(n)

\* fmt.Sprintf("%d", n)
FormatInt(n) == IF n < 0 THEN <<"-">> \o Digits(-n) ELSE Digits(n)

IsDigit(c) == \E d \in 1..10 : DigitChars[d] = c

DigitValue(c) == (CHOOSE d \in 1..10 : DigitChars[d] = c) - 1

RECURSIVE DigitsValue(_)
DigitsValue(s) ==
    IF s = <<>> THEN 0
    ELSE 10 * DigitsValue(SubSeq(s, 1, Len(s) - 1)) + DigitValue(s[Len(s)])

\* a ParseInt that reads 0 where there is no number
ParseIntLax(s) ==
    IF s # <<>> /\ \A k \in 1..Len(s) : IsDigit(s[k])
    THEN [ok |-> TRUE, val |-> DigitsValue(s)]
    ELSE [ok |-> TRUE, val |-> 0]

\* strconv.ParseInt(s, 10, 64): an optional sign, then one or more digits
ParseInt(s) ==
    LET signed == s # <<>> /\ Head(s) \in {"+", "-"}
        body == IF signed THEN Tail(s) ELSE s
    IN  IF body = <<>> \/ \E k \in 1..Len(body) : ~IsDigit(body[k])
        THEN [ok |-> FALSE, val |-> 0]
        ELSE [ok |-> TRUE,
              val |-> IF signed /\ Head(s) = "-"
                      THEN -DigitsValue(body) ELSE DigitsValue(body)]

RECURSIVE ZeroPad(_, _)
ZeroPad(s, width) == IF Len(s) >= width THEN s ELSE ZeroPad(<<"0">> \o s, width)

\* fmt.Sprintf("%f", x) for a coordinate x given in millionths of a degree
FormatFloat(micro) ==
    LET a == IF micro < 0 THEN -micro ELSE micro
    IN  (IF micro < 0 THEN <<"-">> ELSE <<>>)
        \o Digits(a \div 1000000) \o <<".">> \o ZeroPad(Digits(a % 1000000), 6)

WhiteSpace == {" ", "\t", "\n"}

RECURSIVE TrimLeft(_)
TrimLeft(s) ==
    IF s # <<>> /\ Head(s) \in WhiteSpace THEN TrimLeft(Tail(s)) ELSE s

RECURSIVE TrimRight(_)
TrimRight(s) ==
    IF s # <<>> /\ s[Len(s)] \in WhiteSpace
    THEN TrimRight(SubSeq(s, 1, Len(s) - 1)) ELSE s

\* strings.TrimSpace
TrimSpace(s) == TrimRight(TrimLeft(s))

(***************************************************************************)
(* Requests: the arguments of Service.PlaceOrder.                          *)
(***************************************************************************)
UserIDs == {-7, 7}

RestaurantIDs == {<<>>, <<"r", "1">>}

Quantities == {0, 1}

CartItems == [DishID : {"var-1"}, Quantity : Quantities]

RECURSIVE SeqsUpTo(_, _)
SeqsUpTo(S, n) ==
    IF n = 0 THEN {<<>>}
    ELSE LET shorter == SeqsUpTo(S, n - 1)
         IN  shorter \cup {Append(s, x) : s \in shorter, x \in S}

ItemLists == SeqsUpTo(CartItems, MaxItems)

Locations == {[Lat |-> 55751244, Lng |-> -37618423]}

\* *DeliveryLocation: nil or a pointer
DeliveryLocations == {<<>>} \cup {<<l>> : l \in Locations}

GoogleMapsURLs == {<<>>, <<" ">>, <<"u">>}

PlaceOrderInputs ==
    [RestaurantID : RestaurantIDs, Items : ItemLists,
     DeliveryLocation : DeliveryLocations, GoogleMapsURL : GoogleMapsURLs,
     Comment : {"note"}]

\* Invocation 1 is called with any request; the invocations after it (a
\* re-invocation, a concurrent request) with one valid request of another
\* cart, which keeps the interleavings of several sagas checkable.
LaterInputs ==
    {[RestaurantID |-> <<"r", "1">>,
      Items |-> <<[DishID |-> "var-2", Quantity |-> 1]>>,
      DeliveryLocation |-> <<>>, GoogleMapsURL |-> <<"u">>, Comment |-> "again"]}

InputsOf(i) == IF i = 1 THEN PlaceOrderInputs ELSE LaterInputs

UsersOf(i) == IF i = 1 THEN UserIDs ELSE {7}

NoInput ==
    [RestaurantID |-> <<>>, Items |-> <<>>, DeliveryLocation |-> <<>>,
     GoogleMapsURL |-> <<>>, Comment |-> ""]

NoRequest == [telegramUserID |-> 0, input |-> NoInput]

NoResult == [OrderID |-> <<>>, Status |-> ""]

(***************************************************************************)
(* Service configuration (NewService).                                     *)
(***************************************************************************)
channelID == "CH1"

(***************************************************************************)
(* State.                                                                  *)
(***************************************************************************)
VARIABLES
    pc,        \* per invocation: where PlaceOrder stands
    req,       \* per invocation: the arguments PlaceOrder was called with
    orderID,   \* per invocation: the local orderID (<<>> until step 1 returns)
    ret,       \* per invocation: what PlaceOrder returned, [result, err]
    calls,     \* per invocation: the gateway calls it issued, [op, vars]
    last,      \* per invocation: the exchange of its latest call (<<>>: none yet)
    orders,    \* the ids of the orders that exist at the gateway
    cancelled  \* per invocation: whether the ctx it was called with is done

VARIABLES
    signed,    \* what buildInitData signed and with which token (<<>>: nothing yet)
    payload,   \* the initData string on its way to the verifier
    tampered,  \* whether the payload's fields were edited after signing
    verified   \* <<>>, or the VerifyInitData call made and what it returned

VARIABLES
    wrapped,   \* <<>>, or the request the auth middleware served and its response
    resolved   \* <<>>, or the resolver that ran, its context and what it did

VARIABLES
    listing,   \* <<>>, or the latest catalog call: service, arguments, gateway
               \* exchanges, the queries it issued and what it returned
    tagged     \* <<>>, or the latest metadata parsed for tags and the tags

httpVars == <<wrapped, resolved>>

catalogVars == <<listing, tagged>>

authVars == <<signed, payload, tampered, verified, wrapped, resolved,
              listing, tagged>>

vars == <<pc, req, orderID, ret, calls, last, orders, cancelled,
          signed, payload, tampered, verified, wrapped, resolved,
          listing, tagged>>

(***************************************************************************)
(* The gateway exchange behind one Client.Do call, and Client.Do.          *)
(* An exchange is what the HTTP round trip produced: neterr (the request   *)
(* could not be sent or answered), the status code, the envelope's         *)
(* top-level error messages and its data (<<>> when absent).               *)
(***************************************************************************)
MutationErrors == {<<>>, <<"e1", "e2">>}

NetErr == [neterr |-> TRUE, status |-> 0, errors |-> <<>>, data |-> <<>>]

Non2xx == [neterr |-> FALSE, status |-> 500, errors |-> <<>>, data |-> <<>>]

Envelope(errs, data) ==
    [neterr |-> FALSE, status |-> 200, errors |-> errs, data |-> data]

\* the payloads a mutation can answer with, o being the order it would report
MutationData(os) ==
    [order : {<<>>} \cup {<<o>> : o \in os}, errors : MutationErrors]

\* every exchange the model lets a mutation end in
Exchanges(os) ==
    {NetErr, Envelope(<<"g1", "g2">>, <<>>)}
    \cup {Envelope(<<>>, <<d>>) : d \in MutationData(os)}

\* an envelope that has top-level errors and the data of a success as well
ErrorsWithData(os) ==
    {Envelope(<<"g1", "g2">>, <<[order |-> <<o>>, errors |-> <<>>]>>) : o \in os}

\* the order the gateway reports in an exchange, <<>> when it reports none
ReportedOrder(x) ==
    IF x.neterr \/ x.data = <<>> THEN <<>> ELSE x.data[1].order

\* the zero value of a mutation's response struct
ZeroResp == [order |-> <<>>, errors |-> <<>>]

\* a Client.Do that decodes the data whenever the envelope has some
DoDataFirst(x) ==
    IF x.neterr
    THEN [err |-> <<"saleor request: ", "connection refused">>, out |-> ZeroResp]
    ELSE IF x.status < 200 \/ x.status >= 300
    THEN [err |-> <<"saleor non-2xx">>, out |-> ZeroResp]
    ELSE IF x.data # <<>> THEN [err |-> <<>>, out |-> x.data[1]]
    ELSE IF Len(x.errors) > 0
    THEN [err |-> <<"saleor graphql error: ", x.errors[1]>>, out |-> ZeroResp]
    ELSE [err |-> <<"decode saleor graphql data: ", "unexpected end of JSON input">>,
          out |-> ZeroResp]

\* Client.Do: the error it returns and what it decoded into out
Do(x) ==
    IF x.neterr
    THEN [err |-> <<"saleor request: ", "connection refused">>, out |-> ZeroResp]
    ELSE IF x.status < 200 \/ x.status >= 300
    THEN [err |-> <<"saleor non-2xx">>, out |-> ZeroResp]
    ELSE IF Len(x.errors) > 0
    THEN [err |-> <<"saleor graphql error: ", x.errors[1]>>, out |-> ZeroResp]
    ELSE IF x.data = <<>>
    THEN [err |-> <<"decode saleor graphql data: ", "unexpected end of JSON input">>,
          out |-> ZeroResp]
    ELSE [err |-> <<>>, out |-> x.data[1]]

\* a Client.Do that sends its request whatever the state of ctx
DoIgnoringContext(done, X) == {[x |-> x, r |-> Do(x)] : x \in X}

\* Client.Do under ctx, X being the exchanges the gateway would offer: every
\* round trip [x, r] it can end in.  With ctx done the request is not sent
\* and the error of http.Client.Do is the context's.
DoWithContext(done, X) ==
    IF done
    THEN {[x |-> NetErr,
           r |-> [err |-> <<"saleor request: ", "context canceled">>,
                  out |-> ZeroResp]]}
    ELSE {[x |-> x, r |-> Do(x)] : x \in X}

(***************************************************************************)
(* Service.PlaceOrder, pre-flight validation.                              *)
(***************************************************************************)
\* a validation that forgets the delivery check
validatePlaceOrderInputNoDelivery(input) ==
    IF input.RestaurantID = <<>> THEN <<"restaurantId is required">>
    ELSE IF Len(input.Items) = 0 THEN <<"items must not be empty">>
    ELSE <<>>

validatePlaceOrderInput(input) ==
    IF input.RestaurantID = <<>> THEN <<"restaurantId is required">>
    ELSE IF Len(input.Items) = 0 THEN <<"items must not be empty">>
    ELSE IF (input.DeliveryLocation = <<>>) = (TrimSpace(input.GoogleMapsURL) = <<>>)
    THEN <<"provide exactly one of deliveryLocation or googleMapsUrl">>
    ELSE <<>>

(***************************************************************************)
(* Step 1: create the draft order.                                         *)
(***************************************************************************)
\* an email built from the magnitude of the id only
userEmailUnsigned(telegramUserID) ==
    <<"t", "g", "-">> \o FormatIntUnsigned(telegramUserID)
    \o <<"@", "t", "m", "a", ".", "l", "o", "c", "a", "l">>

\* fmt.Sprintf("tg-%d@tma.local", telegramUserID)
userEmail(telegramUserID) ==
    <<"t", "g", "-">> \o FormatInt(telegramUserID)
    \o <<"@", "t", "m", "a", ".", "l", "o", "c", "a", "l">>

\* a metadata builder that always appends the maps link
buildOrderMetadataBoth(telegramUserID, input) ==
    <<[key |-> "tma.telegramUserId", value |-> FormatInt(telegramUserID)],
      [key |-> "tma.restaurantId", value |-> input.RestaurantID]>>
    \o (IF input.DeliveryLocation # <<>>
        THEN <<[key |-> "tma.delivery.lat",
                value |-> FormatFloat(input.DeliveryLocation[1].Lat)],
               [key |-> "tma.delivery.lng",
                value |-> FormatFloat(input.DeliveryLocation[1].Lng)]>>
        ELSE <<>>)
    \o <<[key |-> "tma.delivery.googleMapsUrl", value |-> input.GoogleMapsURL]>>

buildOrderMetadata(telegramUserID, input) ==
    <<[key |-> "tma.telegramUserId", value |-> FormatInt(telegramUserID)],
      [key |-> "tma.restaurantId", value |-> input.RestaurantID]>>
    \o (IF input.DeliveryLocation # <<>>
        THEN <<[key |-> "tma.delivery.lat",
                value |-> FormatFloat(input.DeliveryLocation[1].Lat)],
               [key |-> "tma.delivery.lng",
                value |-> FormatFloat(input.DeliveryLocation[1].Lng)]>>
        ELSE <<[key |-> "tma.delivery.googleMapsUrl",
                value |-> input.GoogleMapsURL]>>)

createVars(telegramUserID, input) ==
    [input |-> [channelId |-> channelID,
                userEmail |-> userEmail(telegramUserID),
                customerNote |-> input.Comment,
                metadata |-> buildOrderMetadata(telegramUserID, input)]]

\* a result check that lets a missing order through
createDraftOrderResultLax(r) ==
    IF r.err # <<>> THEN [id |-> <<>>, err |-> r.err]
    ELSE IF r.out.order = <<>>
    THEN [id |-> <<"order", 0>>, err |-> <<>>]
    ELSE [id |-> r.out.order[1].ID, err |-> <<>>]

\* a step 1 that resumes one remembered draft instead of using its answer
createDraftOrderResultShared(r) ==
    IF r.err # <<>> THEN [id |-> <<>>, err |-> r.err]
    ELSE IF r.out.order = <<>>
    THEN IF Len(r.out.errors) > 0
         THEN [id |-> <<>>, err |-> <<"saleor draftOrderCreate: ", r.out.errors[1]>>]
         ELSE [id |-> <<>>, err |-> <<"saleor draftOrderCreate failed">>]
    ELSE [id |-> <<"order", 1>>, err |-> <<>>]

\* what step 1 makes of Do's answer: the order id, or the error
createDraftOrderResult(r) ==
    IF r.err # <<>> THEN [id |-> <<>>, err |-> r.err]
    ELSE IF r.out.order = <<>>
    THEN IF Len(r.out.errors) > 0
         THEN [id |-> <<>>, err |-> <<"saleor draftOrderCreate: ", r.out.errors[1]>>]
         ELSE [id |-> <<>>, err |-> <<"saleor draftOrderCreate failed">>]
    ELSE [id |-> r.out.order[1].ID, err |-> <<>>]

(***************************************************************************)
(* Step 2: add the order lines.                                            *)
(***************************************************************************)
\* the loop that builds the lines: the error of the first bad quantity
\* a loop that leaves out the items of bad quantity instead of failing
buildLinesSkipping(items) ==
    LET good == SelectSeq(items, LAMBDA it : it.Quantity > 0)
    IN  [lines |-> [k \in DOMAIN good |-> [variantId |-> good[k].DishID,
                                           quantity |-> good[k].Quantity]],
         err |-> <<>>]

RECURSIVE buildLines(_)
buildLines(items) ==
    IF items = <<>> THEN [lines |-> <<>>, err |-> <<>>]
    ELSE IF Head(items).Quantity <= 0
    THEN [lines |-> <<>>, err |-> <<"item quantity must be >= 1">>]
    ELSE LET rest == buildLines(Tail(items))
         IN  IF rest.err # <<>> THEN rest
             ELSE [lines |-> <<[variantId |-> Head(items).DishID,
                                quantity |-> Head(items).Quantity]>> \o rest.lines,
                   err |-> <<>>]

linesVars(id, lines) == [id |-> id, input |-> lines]

\* a step 2 that never looks at the reported errors
addOrderLinesResultUnchecked(r) ==
    IF r.err # <<>> THEN r.err ELSE <<>>

addOrderLinesResult(r) ==
    IF r.err # <<>> THEN r.err
    ELSE IF r.out.order = <<>> /\ Len(r.out.errors) > 0
    THEN <<"saleor orderLinesCreate: ", r.out.errors[1]>>
    ELSE <<>>

(***************************************************************************)
(* Step 3: complete the draft order.                                       *)
(***************************************************************************)
completeVars(id) == [id |-> id]

\* a result built from the draft's id and status instead of the response
completeDraftOrderResultFromDraft(r, id) ==
    IF r.err # <<>> THEN [result |-> NoResult, err |-> r.err]
    ELSE IF r.out.order = <<>>
    THEN IF Len(r.out.errors) > 0
         THEN [result |-> NoResult,
               err |-> <<"saleor draftOrderComplete: ", r.out.errors[1]>>]
         ELSE [result |-> NoResult, err |-> <<"saleor draftOrderComplete failed">>]
    ELSE [result |-> [OrderID |-> id, Status |-> "DRAFT"], err |-> <<>>]

\* what step 3 makes of Do's answer; id is the local orderID
completeDraftOrderResult(r, id) ==
    IF r.err # <<>> THEN [result |-> NoResult, err |-> r.err]
    ELSE IF r.out.order = <<>>
    THEN IF Len(r.out.errors) > 0
         THEN [result |-> NoResult,
               err |-> <<"saleor draftOrderComplete: ", r.out.errors[1]>>]
         ELSE [result |-> NoResult, err |-> <<"saleor draftOrderComplete failed">>]
    ELSE [result |-> [OrderID |-> r.out.order[1].ID,
                      Status |-> r.out.order[1].Status],
          err |-> <<>>]

(***************************************************************************)
(* The saga as a state machine.  One action is one stretch of PlaceOrder   *)
(* from its entry or a gateway call to the next gateway call or return;    *)
(* invocations interleave between their gateway calls.                     *)
(***************************************************************************)
\* the gateway gives every draft it creates an id of its own: the draft of
\* invocation i's draftOrderCreate call (each invocation issues at most one)
OrderIDOf(i) == <<"order", i>>

\* what draftOrderComplete may report for the order it was asked about
CompletedOrders(id) ==
    {[ID |-> id, Status |-> "UNFULFILLED"],
     [ID |-> <<"final">> \o id, Status |-> "UNCONFIRMED"]}

Call(op, v) == [op |-> op, vars |-> v]

Running == [result |-> NoResult, err |-> <<>>]

\* the gateway's orders without order id
Without(os, id) == os \ {id}

Init ==
    /\ pc = [i \in Invs |-> "idle"]
    /\ req = [i \in Invs |-> NoRequest]
    /\ orderID = [i \in Invs |-> <<>>]
    /\ ret = [i \in Invs |-> Running]
    /\ calls = [i \in Invs |-> <<>>]
    /\ last = [i \in Invs |-> <<>>]
    /\ orders = {}
    /\ cancelled = [i \in Invs |-> FALSE]
    /\ signed = <<>>
    /\ payload = <<>>
    /\ tampered = FALSE
    /\ verified = <<>>
    /\ wrapped = <<>>
    /\ resolved = <<>>
    /\ listing = <<>>
    /\ tagged = <<>>

\* a failure exit that first deletes the draft it created
abortSagaWithCancel(i, id, err, log, store) ==
    /\ pc' = [pc EXCEPT ![i] = "failed"]
    /\ ret' = [ret EXCEPT ![i] = [result |-> NoResult, err |-> err]]
    /\ calls' = [calls EXCEPT ![i] =
                    IF id = <<>> THEN log
                    ELSE Append(log, Call("draftOrderDelete", [id |-> id]))]
    /\ orders' = Without(store, id)

\* return PlaceOrderResult{}, err: log and store are the calls issued and
\* the gateway's orders at that point, id the local orderID
abortSaga(i, id, err, log, store) ==
    /\ pc' = [pc EXCEPT ![i] = "failed"]
    /\ ret' = [ret EXCEPT ![i] = [result |-> NoResult, err |-> err]]
    /\ calls' = [calls EXCEPT ![i] = log]
    /\ orders' = store

\* the saga goes on to its next gateway call
proceed(i, next, log, store) ==
    /\ pc' = [pc EXCEPT ![i] = next]
    /\ ret' = ret
    /\ calls' = [calls EXCEPT ![i] = log]
    /\ orders' = store

\* PlaceOrder is entered: the pre-flight validation runs before any call
PlaceOrder(i) ==
    /\ pc[i] = "idle"
    /\ \E uid \in UsersOf(i), input \in InputsOf(i) :
        LET err == validatePlaceOrderInput(input)
        IN  /\ req' = [req EXCEPT ![i] = [telegramUserID |-> uid, input |-> input]]
            /\ IF err # <<>>
               THEN abortSaga(i, <<>>, err, calls[i], orders)
               ELSE proceed(i, "creating", calls[i], orders)
    /\ UNCHANGED <<orderID, last>>
    /\ UNCHANGED authVars
    /\ UNCHANGED cancelled

\* step 1: the draftOrderCreate call, its answer, and the lines loop that
\* runs before the next call
CreateDraftOrder(i) ==
    /\ pc[i] = "creating"
    /\ \E t \in DoWithContext(cancelled[i],
                              Exchanges({[ID |-> OrderIDOf(i), Status |-> "DRAFT"]})) :
        LET x == t.x
            v == createVars(req[i].telegramUserID, req[i].input)
            log == Append(calls[i], Call("draftOrderCreate", v))
            created == ReportedOrder(x)
            store == IF created = <<>> THEN orders
                     ELSE orders \cup {created[1].ID}
            step == createDraftOrderResult(t.r)
            built == buildLines(req[i].input.Items)
        IN  /\ last' = [last EXCEPT ![i] = <<x>>]
            /\ orderID' = [orderID EXCEPT ![i] = step.id]
            /\ IF step.err # <<>>
               THEN abortSaga(i, <<>>, step.err, log, store)
               ELSE IF built.err # <<>>
               THEN abortSaga(i, step.id, built.err, log, store)
               ELSE proceed(i, "filling", log, store)
    /\ UNCHANGED req
    /\ UNCHANGED authVars
    /\ UNCHANGED cancelled

\* step 2: the orderLinesCreate call and its answer
AddOrderLines(i) ==
    /\ pc[i] = "filling"
    /\ \E t \in DoWithContext(cancelled[i], Exchanges({[ID |-> orderID[i]]})) :
        LET x == t.x
            v == linesVars(orderID[i], buildLines(req[i].input.Items).lines)
            log == Append(calls[i], Call("orderLinesCreate", v))
            err == addOrderLinesResult(t.r)
        IN  /\ last' = [last EXCEPT ![i] = <<x>>]
            /\ IF err # <<>>
               THEN abortSaga(i, orderID[i], err, log, orders)
               ELSE proceed(i, "completing", log, orders)
    /\ UNCHANGED <<req, orderID>>
    /\ UNCHANGED authVars
    /\ UNCHANGED cancelled

\* step 3: the draftOrderComplete call and its answer
CompleteDraftOrder(i) ==
    /\ pc[i] = "completing"
    /\ \E t \in DoWithContext(cancelled[i],
                              Exchanges(CompletedOrders(orderID[i]))
                              \cup ErrorsWithData(CompletedOrders(orderID[i]))) :
        LET x == t.x
            v == completeVars(orderID[i])
            log == Append(calls[i], Call("draftOrderComplete", v))
            out == completeDraftOrderResult(t.r, orderID[i])
        IN  /\ last' = [last EXCEPT ![i] = <<x>>]
            /\ IF out.err # <<>>
               THEN abortSaga(i, orderID[i], out.err, log, orders)
               ELSE /\ pc' = [pc EXCEPT ![i] = "done"]
                    /\ ret' = [ret EXCEPT ![i] = out]
                    /\ calls' = [calls EXCEPT ![i] = log]
                    /\ orders' = orders
    /\ UNCHANGED <<req, orderID>>
    /\ UNCHANGED authVars
    /\ UNCHANGED cancelled

Next ==
    \E i \in Invs :
        \/ PlaceOrder(i)
        \/ CreateDraftOrder(i)
        \/ AddOrderLines(i)
        \/ CompleteDraftOrder(i)

Spec == Init /\ [][Next]_vars

\* the caller's context is cancelled while PlaceOrder runs
Cancel(i) ==
    /\ pc[i] \in {"creating", "filling", "completing"}
    /\ ~cancelled[i]
    /\ cancelled' = [cancelled EXCEPT ![i] = TRUE]
    /\ UNCHANGED <<pc, req, orderID, ret, calls, last, orders>>
    /\ UNCHANGED authVars

\* one caller gives up; the other invocations run beside it as before
NextCancel == Next \/ Cancel(1)

SpecCancel == Init /\ [][NextCancel]_vars

(***************************************************************************)
(* Strings of the Telegram verifier.  A string is the sequence of its      *)
(* characters; ByteOf gives the byte of every character that occurs, which *)
(* is what sort.Strings, hex and percent-encoding work on.                 *)
(***************************************************************************)
ByteOf ==
    ("\n" :> 10) @@ (" " :> 32) @@ ("\"" :> 34) @@ ("%" :> 37) @@ ("&" :> 38)
    @@ ("+" :> 43) @@ ("-" :> 45)
    @@ ("0" :> 48) @@ ("1" :> 49) @@ ("2" :> 50) @@ ("3" :> 51) @@ ("4" :> 52)
    @@ ("5" :> 53) @@ ("6" :> 54) @@ ("7" :> 55) @@ ("8" :> 56) @@ ("9" :> 57)
    @@ (":" :> 58) @@ (";" :> 59) @@ ("=" :> 61)
    @@ ("A" :> 65) @@ ("B" :> 66) @@ ("C" :> 67) @@ ("D" :> 68) @@ ("E" :> 69)
    @@ ("F" :> 70) @@ ("_" :> 95)
    @@ ("a" :> 97) @@ ("b" :> 98) @@ ("c" :> 99) @@ ("d" :> 100)
    @@ ("e" :> 101) @@ ("f" :> 102) @@ ("h" :> 104) @@ ("i" :> 105)
    @@ ("q" :> 113) @@ ("r" :> 114) @@ ("s" :> 115) @@ ("t" :> 116)
    @@ ("u" :> 117) @@ ("{" :> 123) @@ ("}" :> 125)

CharOf(b) == CHOOSE c \in DOMAIN ByteOf : ByteOf[c] = b

\* a < b as Go compares strings: byte by byte, a proper prefix first
RECURSIVE Less(_, _)
Less(a, b) ==
    IF b = <<>> THEN FALSE
    ELSE IF a = <<>> THEN TRUE
    ELSE IF ByteOf[Head(a)] # ByteOf[Head(b)]
    THEN ByteOf[Head(a)] < ByteOf[Head(b)]
    ELSE Less(Tail(a), Tail(b))

\* s put into an ascending list at its place
RECURSIVE Insert(_, _)
Insert(s, sorted) ==
    IF sorted = <<>> THEN <<s>>
    ELSE IF Less(s, Head(sorted)) THEN <<s>> \o sorted
    ELSE <<Head(sorted)>> \o Insert(s, Tail(sorted))

\* sort.Strings
RECURSIVE SortStrings(_)
SortStrings(list) ==
    IF list = <<>> THEN <<>> ELSE Insert(Head(list), SortStrings(Tail(list)))

\* the strings of a set in ascending order
RECURSIVE SortedKeys(_)
SortedKeys(S) ==
    IF S = {} THEN <<>>
    ELSE LET least == CHOOSE x \in S : \A y \in S : ~Less(y, x)
         IN  <<least>> \o SortedKeys(S \ {least})

\* the strings of a list one after the other (halving keeps the nesting flat)
RECURSIVE Concat(_)
Concat(list) ==
    IF list = <<>> THEN <<>>
    ELSE IF Len(list) = 1 THEN list[1]
    ELSE LET half == Len(list) \div 2
         IN  Concat(SubSeq(list, 1, half))
             \o Concat(SubSeq(list, half + 1, Len(list)))

\* strings.Join
Join(list, sep) ==
    IF list = <<>> THEN <<>>
    ELSE Concat([k \in 1..(2 * Len(list) - 1) |->
                    IF k % 2 = 1 THEN list[(k + 1) \div 2] ELSE sep])

\* strings.Cut: s around the first sep
Cut(s, sep) ==
    LET at == {k \in 1..Len(s) : s[k] = sep}
        first == CHOOSE k \in at : \A j \in at : k <= j
    IN  IF at = {} THEN [before |-> s, after |-> <<>>, found |-> FALSE]
        ELSE [before |-> SubSeq(s, 1, first - 1),
              after |-> SubSeq(s, first + 1, Len(s)),
              found |-> TRUE]

\* strings.Contains for a one-character substring
Contains(s, c) == \E k \in 1..Len(s) : s[k] = c

\* a lower-casing that leaves the text as it is
ToLowerVerbatim(s) == s

\* strings.ToLower
ToLower(s) ==
    [k \in 1..Len(s) |->
        IF ByteOf[s[k]] >= 65 /\ ByteOf[s[k]] <= 90
        THEN CharOf(ByteOf[s[k]] + 32) ELSE s[k]]

\* strings.ToUpper
ToUpper(s) ==
    [k \in 1..Len(s) |->
        IF ByteOf[s[k]] >= 97 /\ ByteOf[s[k]] <= 102
        THEN CharOf(ByteOf[s[k]] - 32) ELSE s[k]]

\* the first half of s in upper case
ToUpperFirstHalf(s) ==
    [k \in 1..Len(s) |->
        IF k <= Len(s) \div 2 THEN ToUpper(<<s[k]>>)[1] ELSE s[k]]

HexLower == <<"0", "1", "2", "3", "4", "5", "6", "7", "8", "9",
              "a", "b", "c", "d", "e", "f">>

HexUpper == <<"0", "1", "2", "3", "4", "5", "6", "7", "8", "9",
              "A", "B", "C", "D", "E", "F">>

\* hex.EncodeToString: two lower-case hex digits per byte
EncodeToString(bytes) ==
    [k \in 1..(2 * Len(bytes)) |->
        LET b == ByteOf[bytes[(k + 1) \div 2]]
        IN  IF k % 2 = 1 THEN HexLower[(b \div 16) + 1]
            ELSE HexLower[(b % 16) + 1]]

\* net/url ishex, unhex
IsHex(c) == \E d \in 1..16 : HexLower[d] = c \/ HexUpper[d] = c

UnHex(c) == (CHOOSE d \in 1..16 : HexLower[d] = c \/ HexUpper[d] = c) - 1

\* net/url shouldEscape in query-component mode
ShouldEscape(c) ==
    LET b == ByteOf[c]
    IN  ~(\/ b >= 48 /\ b <= 57
          \/ b >= 65 /\ b <= 90
          \/ b >= 97 /\ b <= 122
          \/ c \in {"-", "_", ".", "~"})

\* url.QueryEscape
QueryEscape(s) ==
    Concat([k \in 1..Len(s) |->
        IF s[k] = " " THEN <<"+">>
        ELSE IF ShouldEscape(s[k])
        THEN <<"%", HexUpper[(ByteOf[s[k]] \div 16) + 1],
               HexUpper[(ByteOf[s[k]] % 16) + 1]>>
        ELSE <<s[k]>>])

\* url.QueryUnescape: [ok, val].  Every % must be followed by two hex
\* digits (which are then not read again); + stands for a space
QueryUnescape(s) ==
    LET escapeAt(k) == k >= 1 /\ s[k] = "%"
        valid == \A k \in 1..Len(s) :
                    escapeAt(k) =>
                        k + 2 <= Len(s) /\ IsHex(s[k + 1]) /\ IsHex(s[k + 2])
    IN  IF ~valid THEN [ok |-> FALSE, val |-> <<>>]
        ELSE [ok |-> TRUE,
              val |-> Concat([k \in 1..Len(s) |->
                        IF escapeAt(k)
                        THEN <<CharOf(16 * UnHex(s[k + 1]) + UnHex(s[k + 2]))>>
                        ELSE IF escapeAt(k - 1) \/ escapeAt(k - 2) THEN <<>>
                        ELSE IF s[k] = "+" THEN <<" ">>
                        ELSE <<s[k]>>])]

(***************************************************************************)
(* url.Values: a function from keys to the list of their values.           *)
(***************************************************************************)
EmptyValues == [k \in {} |-> <<>>]

\* url.Values.Get: the first value of the key, "" if there is none
Get(values, key) ==
    IF key \in DOMAIN values /\ values[key] # <<>> THEN values[key][1]
    ELSE <<>>

\* url.Values.Set
Set(values, key, value) ==
    [k \in DOMAIN values \cup {key} |->
        IF k = key THEN <<value>> ELSE values[k]]

\* url.Values.Add
Add(values, key, value) ==
    [k \in DOMAIN values \cup {key} |->
        IF k # key THEN values[k]
        ELSE IF key \in DOMAIN values THEN Append(values[key], value)
        ELSE <<value>>]

\* key=v1&key=v2 for one key, both sides escaped
RECURSIVE EncodeKey(_, _)
EncodeKey(key, vals) ==
    IF vals = <<>> THEN <<>>
    ELSE <<QueryEscape(key) \o <<"=">> \o QueryEscape(Head(vals))>>
         \o EncodeKey(key, Tail(vals))

RECURSIVE EncodeKeys(_, _)
EncodeKeys(values, keys) ==
    IF keys = <<>> THEN <<>>
    ELSE EncodeKey(Head(keys), values[Head(keys)])
         \o EncodeKeys(values, Tail(keys))

\* url.Values.Encode: the keys in ascending order, joined by &
Encode(values) == Join(EncodeKeys(values, SortedKeys(DOMAIN values)), <<"&">>)

\* url.ParseQuery's loop over the & separated parts: [values, err], err the
\* first error met
RECURSIVE parseQuery(_, _, _)
parseQuery(query, m, err) ==
    IF query = <<>> THEN [values |-> m, err |-> err]
    ELSE LET part == Cut(query, "&")
             pair == Cut(part.before, "=")
             key == QueryUnescape(pair.before)
             value == QueryUnescape(pair.after)
             first(e) == IF err = <<>> THEN e ELSE err
         IN  IF Contains(part.before, ";")
             THEN parseQuery(part.after, m, first(<<"invalid semicolon separator in query">>))
             ELSE IF part.before = <<>> THEN parseQuery(part.after, m, err)
             ELSE IF ~key.ok
             THEN parseQuery(part.after, m, first(<<"invalid URL escape">>))
             ELSE IF ~value.ok
             THEN parseQuery(part.after, m, first(<<"invalid URL escape">>))
             ELSE parseQuery(part.after, Add(m, key.val, value.val), err)

\* url.ParseQuery
ParseQuery(query) == parseQuery(query, EmptyValues, <<>>)

(***************************************************************************)
(* The init-data signature.  SHA-256 and HMAC-SHA256 are taken to be       *)
(* collision free: a digest stands for the bytes it was computed from, and *)
(* a MAC for its key and message (no key contains the separating ":").     *)
(***************************************************************************)
KeyHash == <<"h", "a", "s", "h">>

KeyAuthDate == <<"a", "u", "t", "h", "_", "d", "a", "t", "e">>

KeyUser == <<"u", "s", "e", "r">>

\* sha256.Sum256
Sum256(bytes) == <<"s">> \o bytes

\* a MAC that does not depend on its key
HMACKeyless(key, message) == <<":">> \o message

\* hmac.New(sha256.New, key) over message
HMAC(key, message) == key \o <<":">> \o message

\* the key=value pair of every key of the list, first value only
RECURSIVE Pairs(_, _)
Pairs(values, keys) ==
    IF keys = <<>> THEN <<>>
    ELSE <<Head(keys) \o <<"=">> \o Get(values, Head(keys))>>
         \o Pairs(values, Tail(keys))

\* a data-check string that takes the hash field in as well
DataCheckStringWithHash(values) ==
    Join(SortStrings(Pairs(values, SortedKeys(DOMAIN values))), <<"\n">>)

\* the pairs of all keys but hash, sorted as strings, joined by newlines
\* (the order in which the map is ranged over is lost in the sort)
DataCheckString(values) ==
    Join(SortStrings(Pairs(values, SortedKeys(DOMAIN values \ {KeyHash}))),
         <<"\n">>)

\* the hex MAC of the data-check string under the bot token
Signature(botToken, values) ==
    EncodeToString(HMAC(Sum256(botToken), DataCheckString(values)))

\* the user object the signer writes
UserJSON(userID) ==
    <<"{", "\"", "i", "d", "\"", ":">> \o FormatInt(userID) \o <<"}">>

\* a JSON number that fits User.ID: -?(0|[1-9][0-9]*)
IsJSONInt(s) ==
    LET body == IF s # <<>> /\ Head(s) = "-" THEN Tail(s) ELSE s
    IN  /\ body # <<>>
        /\ \A k \in 1..Len(body) : IsDigit(body[k])
        /\ Len(body) > 1 => Head(body) # "0"

\* json.Unmarshal([]byte(userRaw), &user) on the documents that occur: an
\* object without members, an object with the member id, anything else is
\* not JSON.  [ok, ID]
UnmarshalUser(userRaw) ==
    LET open == <<"{", "\"", "i", "d", "\"", ":">>
        n == Len(userRaw)
        number == SubSeq(userRaw, Len(open) + 1, n - 1)
    IN  IF userRaw = <<"{", "}">> THEN [ok |-> TRUE, ID |-> 0]
        ELSE IF /\ n > Len(open) + 1
                /\ SubSeq(userRaw, 1, Len(open)) = open
                /\ userRaw[n] = "}"
                /\ IsJSONInt(number)
        THEN [ok |-> TRUE, ID |-> ParseInt(number).val]
        ELSE [ok |-> FALSE, ID |-> 0]

ErrInvalidInitData == "invalid telegram init data"

\* AuthResult{}
NoAuthResult == [User |-> [ID |-> 0], AuthDate |-> <<>>]

\* return AuthResult{}, fmt.Errorf("%w: ...", ErrInvalidInitData)
Rejected(what) == [result |-> NoAuthResult, err |-> <<ErrInvalidInitData, what>>]

\* an expiry test that treats maxAge = 0 like any other limit
expiredAlsoAtZero(maxAge, since) == since > maxAge

\* maxAge > 0 && time.Since(authDate) > maxAge
expired(maxAge, since) == maxAge > 0 /\ since > maxAge

\* a verifier that reads auth_date and user before it checks the signature
VerifyInitDataFieldsFirst(initData, botToken, maxAge, now) ==
    LET parsed == ParseQuery(initData)
        values == parsed.values
        hash == Get(values, KeyHash)
        expected == Signature(botToken, values)
        authDateRaw == Get(values, KeyAuthDate)
        sec == ParseInt(authDateRaw)
        userRaw == Get(values, KeyUser)
        user == UnmarshalUser(userRaw)
    IN  IF parsed.err # <<>> THEN Rejected("parse query")
        ELSE IF hash = <<>> THEN Rejected("missing hash")
        ELSE IF authDateRaw = <<>> THEN Rejected("missing auth_date")
        ELSE IF ~sec.ok THEN Rejected("invalid auth_date")
        ELSE IF expired(maxAge, now - sec.val)
        THEN Rejected("auth_date expired")
        ELSE IF userRaw = <<>> THEN Rejected("missing user")
        ELSE IF ~user.ok THEN Rejected("invalid user json")
        ELSE IF user.ID = 0 THEN Rejected("missing user.id")
        ELSE IF ToLower(hash) # ToLower(expected)
        THEN Rejected("signature mismatch")
        ELSE [result |-> [User |-> [ID |-> user.ID], AuthDate |-> <<sec.val>>],
              err |-> <<>>]

\* VerifyInitData; now is the clock time.Since reads, in seconds like maxAge
VerifyInitData(initData, botToken, maxAge, now) ==
    LET parsed == ParseQuery(initData)
        values == parsed.values
        hash == Get(values, KeyHash)
        expected == Signature(botToken, values)
        authDateRaw == Get(values, KeyAuthDate)
        sec == ParseInt(authDateRaw)
        userRaw == Get(values, KeyUser)
        user == UnmarshalUser(userRaw)
    IN  IF parsed.err # <<>> THEN Rejected("parse query")
        ELSE IF hash = <<>> THEN Rejected("missing hash")
        ELSE IF ToLower(hash) # ToLower(expected)
        THEN Rejected("signature mismatch")
        ELSE IF authDateRaw = <<>> THEN Rejected("missing auth_date")
        ELSE IF ~sec.ok THEN Rejected("invalid auth_date")
        ELSE IF expired(maxAge, now - sec.val)
        THEN Rejected("auth_date expired")
        ELSE IF userRaw = <<>> THEN Rejected("missing user")
        ELSE IF ~user.ok THEN Rejected("invalid user json")
        ELSE IF user.ID = 0 THEN Rejected("missing user.id")
        ELSE [result |-> [User |-> [ID |-> user.ID], AuthDate |-> <<sec.val>>],
              err |-> <<>>]

(***************************************************************************)
(* The signer (buildInitData), an edit of the signed fields on the way,    *)
(* and the call of VerifyInitData.                                         *)
(***************************************************************************)
\* how many extra fields the signer adds to auth_date and user
MaxExtra == 1

BotTokens == {<<"t", "1">>, <<"t", "2">>}

SignedUserIDs == {0, 7}

\* time.Now().Unix() at the signer, and the offsets of auth_date from it
SignClocks == {10}

OffsetSeconds == {-1, 0}

ExtraKeys == {<<"a">>, <<"u", "s", "e", "r", "1">>}

ExtraValues == {<<"b", "=", "c">>, <<"1">>}

\* extraFields: at most MaxExtra of the extra keys, each with a value
ExtraFields ==
    UNION {[K -> ExtraValues] : K \in {S \in SUBSET ExtraKeys : Cardinality(S) <= MaxExtra}}

\* the verifier's clock and maxAge, in seconds
Clocks == {10, 12}

MaxAges == {0, 1}

\* the field a tampering writes
TamperFields ==
    {[key |-> KeyUser, value |-> UserJSON(9)],
     [key |-> KeyAuthDate, value |-> <<"1", "2">>],
     [key |-> <<"a">>, value |-> <<"1">>],
     [key |-> <<"a", "=", "b">>, value |-> <<"c">>]}

\* values.Set(k, v) for every field of the map
RECURSIVE SetAll(_, _, _)
SetAll(values, fields, keys) ==
    IF keys = <<>> THEN values
    ELSE SetAll(Set(values, Head(keys), fields[Head(keys)]), fields, Tail(keys))

\* fields[k] = v for the signer's own fields, then for the extra ones
SignerFields(userID, authDate, extraFields) ==
    [k \in {KeyAuthDate, KeyUser} \cup DOMAIN extraFields |->
        IF k \in DOMAIN extraFields THEN extraFields[k]
        ELSE IF k = KeyAuthDate THEN FormatInt(authDate)
        ELSE UserJSON(userID)]

\* buildInitData up to the encoding: the fields and their hash as url.Values
signedValues(botToken, userID, authDate, extraFields) ==
    LET fields == SignerFields(userID, authDate, extraFields)
        values == SetAll(EmptyValues, fields, SortedKeys(DOMAIN fields))
    IN  Set(values, KeyHash, Signature(botToken, values))

\* buildInitData: the signed query string
buildInitData(botToken, userID, authDate, extraFields) ==
    Encode(signedValues(botToken, userID, authDate, extraFields))

\* the signer builds a payload
BuildInitData ==
    /\ signed = <<>>
    /\ \E botToken \in BotTokens, userID \in SignedUserIDs, clock \in SignClocks,
          offset \in OffsetSeconds, extraFields \in ExtraFields :
        LET authDate == clock + offset
            initData == buildInitData(botToken, userID, authDate, extraFields)
        IN  /\ signed' = <<[botToken |-> botToken, userID |-> userID,
                            authDate |-> authDate,
                            values |-> signedValues(botToken, userID, authDate,
                                                    extraFields),
                            initData |-> initData]>>
            /\ payload' = initData
    /\ UNCHANGED <<tampered, verified>>
    /\ UNCHANGED <<pc, req, orderID, ret, calls, last, orders, cancelled>>
    /\ UNCHANGED httpVars
    /\ UNCHANGED catalogVars

\* the payload is decoded, a signed field is dropped and/or one is written,
\* and it is encoded again with the hash it had
Tamper ==
    /\ signed # <<>> /\ ~tampered /\ verified = <<>>
    /\ LET values == ParseQuery(payload).values
       IN  \E drop \in {D \in SUBSET (DOMAIN values \ {KeyHash}) : Cardinality(D) <= 1},
              put \in {P \in SUBSET TamperFields : Cardinality(P) <= 1} :
            LET dropped == [k \in DOMAIN values \ drop |-> values[k]]
                edited == IF put = {} THEN dropped
                          ELSE LET f == CHOOSE f \in put : TRUE
                               IN  Set(dropped, f.key, f.value)
            IN  /\ edited # values
                /\ payload' = Encode(edited)
    /\ tampered' = TRUE
    /\ UNCHANGED <<signed, verified>>
    /\ UNCHANGED <<pc, req, orderID, ret, calls, last, orders, cancelled>>
    /\ UNCHANGED httpVars
    /\ UNCHANGED catalogVars

\* the payload is decoded, the letters of its hash are put into another
\* case, and it is encoded again
RecaseHash ==
    /\ signed # <<>> /\ ~tampered /\ verified = <<>>
    /\ LET values == ParseQuery(payload).values
           hash == Get(values, KeyHash)
       IN  \E recased \in {ToUpper(hash), ToUpperFirstHalf(hash)} :
            /\ recased # hash
            /\ payload' = Encode(Set(values, KeyHash, recased))
    /\ tampered' = TRUE
    /\ UNCHANGED <<signed, verified>>
    /\ UNCHANGED <<pc, req, orderID, ret, calls, last, orders, cancelled>>
    /\ UNCHANGED httpVars
    /\ UNCHANGED catalogVars

\* the payloads built by hand: which signed fields are left out or written
\* before the hash is computed, and whether a hash is set at all
HandBuilt ==
    {[drop |-> {KeyAuthDate}, put |-> {}, hash |-> TRUE],
     [drop |-> {}, put |-> {[key |-> KeyAuthDate, value |-> <<"q">>]}, hash |-> TRUE],
     [drop |-> {KeyUser}, put |-> {}, hash |-> TRUE],
     [drop |-> {}, put |-> {[key |-> KeyUser, value |-> <<"{">>]}, hash |-> TRUE],
     [drop |-> {}, put |-> {[key |-> KeyUser, value |-> <<"{", "}">>]}, hash |-> TRUE],
     [drop |-> {}, put |-> {}, hash |-> FALSE]}

\* a payload is put together field by field and signed over the fields it
\* has, with the signer's token
SignByHand ==
    /\ signed # <<>> /\ ~tampered /\ verified = <<>>
    /\ DOMAIN signed[1].values = {KeyAuthDate, KeyUser, KeyHash}
    /\ \E build \in HandBuilt :
        LET kept == [k \in DOMAIN signed[1].values \ ({KeyHash} \cup build.drop) |->
                        signed[1].values[k]]
            fields == IF build.put = {} THEN kept
                      ELSE LET f == CHOOSE f \in build.put : TRUE
                           IN  Set(kept, f.key, f.value)
        IN  payload' = Encode(IF build.hash
                              THEN Set(fields, KeyHash,
                                       Signature(signed[1].botToken, fields))
                              ELSE fields)
    /\ tampered' = TRUE
    /\ UNCHANGED <<signed, verified>>
    /\ UNCHANGED <<pc, req, orderID, ret, calls, last, orders, cancelled>>
    /\ UNCHANGED httpVars
    /\ UNCHANGED catalogVars

\* the server calls VerifyInitData on the payload it received
CallVerifyInitData ==
    /\ signed # <<>> /\ verified = <<>>
    /\ \E botToken \in BotTokens, maxAge \in MaxAges, now \in Clocks :
        verified' = <<[botToken |-> botToken, maxAge |-> maxAge, now |-> now,
                       out |-> VerifyInitData(payload, botToken, maxAge, now)]>>
    /\ UNCHANGED <<signed, payload, tampered>>
    /\ UNCHANGED <<pc, req, orderID, ret, calls, last, orders, cancelled>>
    /\ UNCHANGED httpVars
    /\ UNCHANGED catalogVars

NextVerify ==
    BuildInitData \/ Tamper \/ RecaseHash \/ SignByHand \/ CallVerifyInitData

SpecVerify == Init /\ [][NextVerify]_vars

(***************************************************************************)
(* The HTTP boundary: TelegramAuthMiddleware.Wrap in front of the GraphQL  *)
(* resolvers.  A request context is the identity slot it carries: <<>>     *)
(* without one, <<a>> with the AuthResult a.                               *)
(***************************************************************************)
\* telegram.WithAuth
WithAuth(ctx, a) == <<a>>

\* a FromContext that reports an identity in every context
FromContextAlways(ctx) ==
    [a |-> IF ctx = <<>> THEN NoAuthResult ELSE ctx[1], ok |-> TRUE]

\* telegram.FromContext
FromContext(ctx) ==
    IF ctx = <<>> THEN [a |-> NoAuthResult, ok |-> FALSE]
    ELSE [a |-> ctx[1], ok |-> TRUE]

\* http.Error(w, text, http.StatusUnauthorized); next is not called
Unauthorized(text) ==
    [status |-> 401, body |-> <<text, "\n">>, ctx |-> <<>>, next |-> FALSE]

\* a middleware that tells the client why verification failed
WrapTelling(m, initData, now) ==
    LET out == VerifyInitData(initData, m.BotToken, m.MaxAge, now)
    IN  IF initData = <<>> THEN Unauthorized("missing X-Telegram-Init-Data")
        ELSE IF out.err # <<>> THEN Unauthorized(out.err[2])
        ELSE [status |-> 200, body |-> <<>>,
              ctx |-> WithAuth(<<>>, out.result), next |-> TRUE]

\* the handler TelegramAuthMiddleware.Wrap returns, up to the call of next:
\* the response it writes itself, or the context it hands to next
Wrap(m, initData, now) ==
    LET out == VerifyInitData(initData, m.BotToken, m.MaxAge, now)
    IN  IF initData = <<>> THEN Unauthorized("missing X-Telegram-Init-Data")
        ELSE IF out.err # <<>> THEN Unauthorized("invalid telegram init data")
        ELSE [status |-> 200, body |-> <<>>,
              ctx |-> WithAuth(<<>>, out.result), next |-> TRUE]

ErrUnauthenticated == "unauthenticated"

\* the four operations of the GraphQL schema
Operations ==
    {"restaurants", "restaurantCategories", "categoryDishes", "placeOrder"}

\* the TMAService method behind each operation
ServiceMethod ==
    [restaurants |-> "ListRestaurants", restaurantCategories |-> "ListCategories",
     categoryDishes |-> "ListDishes", placeOrder |-> "PlaceOrder"]

\* a resolver: the identity is taken from the context, without one the
\* resolver returns ErrUnauthenticated; the service is called with the
\* identity's user id where the method takes one.  [err, call]
resolve(ctx, op) ==
    LET auth == FromContext(ctx)
    IN  IF ~auth.ok THEN [err |-> <<ErrUnauthenticated>>, call |-> <<>>]
        ELSE [err |-> <<>>,
              call |-> <<[method |-> ServiceMethod[op],
                          telegramUserID |-> IF op = "placeOrder"
                                             THEN <<auth.a.User.ID>> ELSE <<>>]>>]

\* no request has been served yet
Pending == wrapped = <<>> /\ resolved = <<>>

\* the server serves one request: the middleware, and behind it the resolver
\* of the operation asked for
ServeHTTP ==
    /\ Pending /\ verified = <<>>
    /\ \E BotToken \in BotTokens, MaxAge \in MaxAges, now \in Clocks :
        LET m == [BotToken |-> BotToken, MaxAge |-> MaxAge]
        IN  /\ wrapped' = <<[m |-> m, now |-> now, initData |-> payload,
                             response |-> Wrap(m, payload, now)]>>
            /\ IF wrapped'[1].response.next
               THEN \E op \in Operations :
                        resolved' = <<[ctx |-> wrapped'[1].response.ctx, op |-> op,
                                       out |-> resolve(wrapped'[1].response.ctx, op)]>>
               ELSE resolved' = <<>>
    /\ UNCHANGED <<signed, payload, tampered, verified>>
    /\ UNCHANGED <<pc, req, orderID, ret, calls, last, orders, cancelled>>
    /\ UNCHANGED catalogVars

\* a resolver is called with a context that carries no identity
Resolve ==
    /\ Pending /\ signed = <<>>
    /\ \E op \in Operations :
        resolved' = <<[ctx |-> <<>>, op |-> op, out |-> resolve(<<>>, op)]>>
    /\ UNCHANGED <<signed, payload, tampered, verified, wrapped>>
    /\ UNCHANGED <<pc, req, orderID, ret, calls, last, orders, cancelled>>
    /\ UNCHANGED catalogVars

\* the client prepares the payload of the request it is about to send
PreparePayload ==
    Pending /\ (BuildInitData \/ Tamper \/ RecaseHash \/ SignByHand)

NextHTTP == PreparePayload \/ ServeHTTP \/ Resolve

SpecHTTP == Init /\ [][NextHTTP]_vars

(***************************************************************************)
(* Restaurant tags: parseTagsFromMetadata and the calls it makes.          *)
(* A metadata list is a sequence of [Key, Value]; keys are atoms, values   *)
(* are strings. A nil slice and an empty slice are both <<>>.              *)
(***************************************************************************)
\* strings.HasPrefix
HasPrefix(s, prefix) ==
    Len(s) >= Len(prefix) /\ SubSeq(s, 1, Len(prefix)) = prefix

\* strings.Split for a one-character separator
RECURSIVE Split(_, _)
Split(s, sep) ==
    LET c == Cut(s, sep)
    IN  IF ~c.found THEN <<s>> ELSE <<c.before>> \o Split(c.after, sep)

\* the white space encoding/json skips between tokens
JSONSpace == {" ", "\t", "\r", "\n"}

RECURSIVE skipSpace(_, _)
skipSpace(v, i) ==
    IF i <= Len(v) /\ v[i] \in JSONSpace THEN skipSpace(v, i + 1) ELSE i

\* the first quote at or after j, 0 when there is none (the texts modelled
\* have no backslash and no control character, so every quote closes)
RECURSIVE closingQuote(_, _)
closingQuote(v, j) ==
    IF j > Len(v) THEN 0
    ELSE IF v[j] = "\"" THEN j
    ELSE closingQuote(v, j + 1)

HasAt(v, i, word) ==
    i + Len(word) - 1 <= Len(v) /\ SubSeq(v, i, i + Len(word) - 1) = word

NoElement == [ok |-> FALSE, val |-> <<>>, next |-> 0]

\* an element that must be a string; null is refused
stringElementNoNull(v, i) ==
    IF i <= Len(v) /\ v[i] = "\""
    THEN LET j == closingQuote(v, i + 1)
         IN  IF j = 0 THEN NoElement
             ELSE [ok |-> TRUE, val |-> SubSeq(v, i + 1, j - 1), next |-> j + 1]
    ELSE NoElement

\* one array element decoded into a Go string: a string literal gives its
\* text, null leaves the element at its zero value "", any other value is
\* a syntax or a type error
stringElement(v, i) ==
    IF i <= Len(v) /\ v[i] = "\""
    THEN LET j == closingQuote(v, i + 1)
         IN  IF j = 0 THEN NoElement
             ELSE [ok |-> TRUE, val |-> SubSeq(v, i + 1, j - 1), next |-> j + 1]
    ELSE IF HasAt(v, i, <<"n", "u", "l", "l">>)
    THEN [ok |-> TRUE, val |-> <<>>, next |-> i + 4]
    ELSE NoElement

JSONError == [err |-> <<"json: invalid input">>, arr |-> <<>>]

\* the elements from position i on, up to the closing bracket and the end
RECURSIVE stringElements(_, _, _)
stringElements(v, i, acc) ==
    LET e == stringElement(v, skipSpace(v, i))
        k == skipSpace(v, e.next)
    IN  IF ~e.ok \/ k > Len(v) THEN JSONError
        ELSE IF v[k] = "," THEN stringElements(v, k + 1, Append(acc, e.val))
        ELSE IF v[k] = "]" /\ skipSpace(v, k + 1) > Len(v)
        THEN [err |-> <<>>, arr |-> Append(acc, e.val)]
        ELSE JSONError

\* json.Unmarshal([]byte(v), &arr) for arr of type []string
UnmarshalStrings(v) ==
    LET i == skipSpace(v, 1)
        k == skipSpace(v, i + 1)
    IN  IF i > Len(v) \/ v[i] # "[" THEN JSONError
        ELSE IF k <= Len(v) /\ v[k] = "]"
        THEN IF skipSpace(v, k + 1) > Len(v)
             THEN [err |-> <<>>, arr |-> <<>>] ELSE JSONError
        ELSE stringElements(v, k, <<>>)

KeyTags == "tma_tags"

\* the comma-separated reading: each part trimmed, the empty ones dropped
commaTags(v) ==
    LET parts == Split(v, ",")
        trimmed == [k \in 1..Len(parts) |-> TrimSpace(parts[k])]
    IN  SelectSeq(trimmed, LAMBDA p : p # <<>>)

parseTagsFromMetadata(meta) ==
    LET at == {k \in 1..Len(meta) : meta[k].Key = KeyTags}
        first == CHOOSE k \in at : \A j \in at : k <= j
        v == TrimSpace(meta[first].Value)
        json == UnmarshalStrings(v)
    IN  IF at = {} THEN <<>>
        ELSE IF v = <<>> THEN <<>>
        ELSE IF HasPrefix(v, <<"[">>) /\ json.err = <<>> THEN json.arr
        ELSE commaTags(v)

(***************************************************************************)
(* The catalog: Service.ListRestaurants, ListCategories and ListDishes.   *)
(* A service is its configuration [restaurantRootCategoryID, channelSlug]. *)
(* Each operator takes the gateway exchanges its calls will meet and       *)
(* gives the queries it issued, in order, and what it returned.            *)
(***************************************************************************)
channelSlug == "default-channel"

\* the longest list of edges a gateway response carries
MaxEdges == 2

RootCategoryIDs == {"", "root-42"}

Services ==
    [restaurantRootCategoryID : RootCategoryIDs, channelSlug : {channelSlug}]

Searches == {<<>>, <<" ">>, <<"p", "i">>, <<" ", "p", "i", " ">>}

CatalogRestaurantIDs == {"rest-1", "rest-2"}

CatalogCategoryIDs == {"cat-1"}

CategoryNodes ==
    { [ID |-> "rest-1", Name |-> "Pizza Palace", Description |-> "Italian",
       BackgroundImage |-> <<"https://img/1">>,
       Metadata |-> <<[Key |-> KeyTags, Value |-> <<"a", ",", " ", "b">>]>>],
      [ID |-> "rest-2", Name |-> "Sushi Bar", Description |-> "",
       BackgroundImage |-> <<>>,
       Metadata |-> <<[Key |-> "other", Value |-> <<"x">>]>>],
      [ID |-> "rest-3", Name |-> "Burger Bros", Description |-> "",
       BackgroundImage |-> <<>>,
       Metadata |-> <<[Key |-> KeyTags,
                       Value |-> <<"[", "\"", "a", "\"", "]">>]>>] }

CategoryEdges == SeqsUpTo(CategoryNodes, MaxEdges)

Gross == [Amount |-> 12500000, Currency |-> "USD"]

Priced(id) == [ID |-> id, Pricing |-> <<[Price |-> <<[Gross |-> Gross]>>]>>]

Unpriced(id) == [ID |-> id, Pricing |-> <<>>]

PriceWithheld(id) == [ID |-> id, Pricing |-> <<[Price |-> <<>>]>>]

VariantLists ==
    { <<>>, <<Priced("var-1")>>, <<Unpriced("var-1")>>,
      <<PriceWithheld("var-2")>>,
      <<Priced("var-1"), Priced("var-2")>>,
      <<Priced("var-2"), Unpriced("var-1")>> }

ProductNodes ==
    { [ID |-> "prod-1", Name |-> "Margherita", Description |-> "Classic",
       Thumbnail |-> <<"https://img/p1">>, Variants |-> vs] : vs \in VariantLists }
    \cup
    { [ID |-> "prod-2", Name |-> "Invisible Dish", Description |-> "",
       Thumbnail |-> <<>>, Variants |-> vs] : vs \in VariantLists }

ProductEdges == SeqsUpTo(ProductNodes, MaxEdges)

\* a round trip that failed, at the transport or with a top-level error
FailedExchanges == {NetErr, Envelope(<<"g1", "g2">>, <<>>)}

\* the answers of X that carry data, with top-level errors beside the data
WithErrors(X) ==
    {[x EXCEPT !.errors = <<"g1", "g2">>] :
        x \in {y \in X : ~y.neterr /\ y.errors = <<>> /\ y.data # <<>>}}

RootAnswers ==
    {Envelope(<<>>, <<[category |-> <<>>]>>)}
    \cup {Envelope(<<>>, <<[category |-> <<[children |-> es]>>]>>) :
            es \in CategoryEdges}

RootExchanges == FailedExchanges \cup RootAnswers \cup WithErrors(RootAnswers)

TopLevelAnswers ==
    {Envelope(<<>>, <<[categories |-> es]>>) : es \in CategoryEdges}

TopLevelExchanges ==
    FailedExchanges \cup TopLevelAnswers \cup WithErrors(TopLevelAnswers)

ParentExchanges ==
    FailedExchanges
    \cup {Envelope(<<>>, <<[category |-> <<>>]>>),
          Envelope(<<>>, <<[category |-> <<[parent |-> <<>>]>>]>>)}
    \cup {Envelope(<<>>, <<[category |-> <<[parent |-> <<[id |-> p]>>]>>]>>) :
            p \in CatalogRestaurantIDs}

ProductAnswers ==
    {Envelope(<<>>, <<[products |-> es]>>) : es \in ProductEdges}

\* top-level errors beside the data of a single product
ProductExchanges ==
    FailedExchanges \cup ProductAnswers
    \cup WithErrors({x \in ProductAnswers : Len(x.data[1].products) = 1})

\* what the gateway may answer to a listing query: the answer has the shape
\* of the query that was sent
AnswersTo(op) ==
    IF op = "RestaurantsFromRoot" THEN RootExchanges ELSE TopLevelExchanges

Return(result, err) == [result |-> result, err |-> err]

mapRestaurants(edges) ==
    [k \in 1..Len(edges) |->
        [ID |-> edges[k].ID,
         Name |-> edges[k].Name,
         Description |-> edges[k].Description,
         ImageURL |-> IF edges[k].BackgroundImage # <<>>
                      THEN edges[k].BackgroundImage[1] ELSE "",
         Tags |-> parseTagsFromMetadata(edges[k].Metadata)]]

listRestaurantsFromRoot(rootID, x) ==
    LET r == Do(x)
    IN  [queries |-> <<Call("RestaurantsFromRoot", [id |-> rootID])>>,
         out |-> IF r.err # <<>> THEN Return(<<>>, r.err)
                 ELSE IF r.out.category = <<>>
                 THEN Return(<<>>, <<"root category not found">>)
                 ELSE Return(mapRestaurants(r.out.category[1].children), <<>>)]

listRestaurantsTopLevel(search, x) ==
    LET filter == IF TrimSpace(search) # <<>>
                  THEN <<[search |-> search]>> ELSE <<>>
        r == Do(x)
    IN  [queries |-> <<Call("RestaurantsTopLevel",
                            [first |-> 100, level |-> 0, filter |-> filter])>>,
         out |-> IF r.err # <<>> THEN Return(<<>>, r.err)
                 ELSE Return(mapRestaurants(r.out.categories), <<>>)]

\* a selection that lets a search text switch to the top-level listing
ListRestaurantsBySearch(s, search, x) ==
    IF s.restaurantRootCategoryID # "" /\ TrimSpace(search) = <<>>
    THEN listRestaurantsFromRoot(s.restaurantRootCategoryID, x)
    ELSE listRestaurantsTopLevel(search, x)

ListRestaurants(s, search, x) ==
    IF s.restaurantRootCategoryID # ""
    THEN listRestaurantsFromRoot(s.restaurantRootCategoryID, x)
    ELSE listRestaurantsTopLevel(search, x)

CategoryExchanges == RootExchanges

\* a listing that takes a missing restaurant for one without categories
ListCategoriesLenient(s, restaurantID, x) ==
    LET r == Do(x)
    IN  [queries |-> <<Call("RestaurantCategories", [id |-> restaurantID])>>,
         out |-> IF r.err # <<>> THEN Return(<<>>, r.err)
                 ELSE IF r.out.category = <<>> THEN Return(<<>>, <<>>)
                 ELSE Return([k \in 1..Len(r.out.category[1].children) |->
                                [ID |-> r.out.category[1].children[k].ID,
                                 RestaurantID |-> restaurantID]],
                             <<>>)]

ListCategories(s, restaurantID, x) ==
    LET r == Do(x)
        edges == r.out.category[1].children
    IN  [queries |-> <<Call("RestaurantCategories", [id |-> restaurantID])>>,
         out |-> IF r.err # <<>> THEN Return(<<>>, r.err)
                 ELSE IF r.out.category = <<>>
                 THEN Return(<<>>, <<"restaurant category not found">>)
                 ELSE Return([k \in 1..Len(edges) |->
                                [ID |-> edges[k].ID,
                                 RestaurantID |-> restaurantID,
                                 Name |-> edges[k].Name,
                                 Description |-> edges[k].Description,
                                 ImageURL |-> IF edges[k].BackgroundImage # <<>>
                                              THEN edges[k].BackgroundImage[1]
                                              ELSE ""]],
                             <<>>)]

\* a parent test that accepts every category that has a parent
categoryIsChildOfAnyone(categoryID, expectedParentID, x) ==
    LET r == Do(x)
    IN  IF r.err # <<>> THEN [ok |-> FALSE, err |-> r.err]
        ELSE IF r.out.category = <<>> \/ r.out.category[1].parent = <<>>
        THEN [ok |-> FALSE, err |-> <<>>]
        ELSE [ok |-> TRUE, err |-> <<>>]

categoryIsChildOf(categoryID, expectedParentID, x) ==
    LET r == Do(x)
    IN  IF r.err # <<>> THEN [ok |-> FALSE, err |-> r.err]
        ELSE IF r.out.category = <<>> \/ r.out.category[1].parent = <<>>
        THEN [ok |-> FALSE, err |-> <<>>]
        ELSE [ok |-> r.out.category[1].parent[1].id = expectedParentID,
              err |-> <<>>]

\* the price of a variant, zero when the gateway gave none
priceOf(v) ==
    IF v.Pricing # <<>> /\ v.Pricing[1].Price # <<>>
    THEN [Amount |-> v.Pricing[1].Price[1].Gross.Amount,
          Currency |-> v.Pricing[1].Price[1].Gross.Currency]
    ELSE [Amount |-> 0, Currency |-> ""]

dishOf(node, v, restaurantID, categoryID) ==
    [ID |-> v.ID,
     ProductID |-> node.ID,
     RestaurantID |-> restaurantID,
     CategoryID |-> categoryID,
     Name |-> node.Name,
     Description |-> node.Description,
     ImageURL |-> IF node.Thumbnail # <<>> THEN node.Thumbnail[1] ELSE "",
     Price |-> priceOf(v)]

\* a loop that makes a dish of every variant's last sibling
dishesOfLastVariant(edges, restaurantID, categoryID) ==
    LET kept == SelectSeq(edges, LAMBDA e : Len(e.Variants) # 0)
    IN  [k \in 1..Len(kept) |->
            dishOf(kept[k], kept[k].Variants[Len(kept[k].Variants)],
                   restaurantID, categoryID)]

\* the loop of ListDishes over the product edges
dishesOf(edges, restaurantID, categoryID) ==
    LET kept == SelectSeq(edges, LAMBDA e : Len(e.Variants) # 0)
    IN  [k \in 1..Len(kept) |->
            dishOf(kept[k], kept[k].Variants[1], restaurantID, categoryID)]

ListDishes(s, restaurantID, categoryID, x1, x2) ==
    LET parentCall == Call("CategoryParent", [id |-> categoryID])
        productsCall == Call("CategoryDishes",
                             [first |-> 100, channel |-> s.channelSlug,
                              categoryId |-> <<categoryID>>])
        child == categoryIsChildOf(categoryID, restaurantID, x1)
        r == Do(x2)
    IN  IF child.err # <<>>
        THEN [queries |-> <<parentCall>>, out |-> Return(<<>>, child.err)]
        ELSE IF ~child.ok
        THEN [queries |-> <<parentCall>>,
              out |-> Return(<<>>, <<"category does not belong to restaurant">>)]
        ELSE IF r.err # <<>>
        THEN [queries |-> <<parentCall, productsCall>>,
              out |-> Return(<<>>, r.err)]
        ELSE [queries |-> <<parentCall, productsCall>>,
              out |-> Return(dishesOf(r.out.products, restaurantID, categoryID),
                               <<>>)]

(***************************************************************************)
(* The catalog calls as steps. Each call is independent of every other:    *)
(* the service keeps no state between calls.                               *)
(***************************************************************************)
Idle == listing = <<>> /\ tagged = <<>>

Listing(s, op, args, xs, done) ==
    [s |-> s, op |-> op, args |-> args,
     exchanges |-> SubSeq(xs, 1, Len(done.queries)),
     queries |-> done.queries, out |-> done.out]

CallListRestaurants ==
    /\ Idle
    /\ \E s \in Services, search \in Searches :
         \E x \in AnswersTo(ListRestaurants(s, search, NetErr).queries[1].op) :
            listing' = <<Listing(s, "ListRestaurants", [search |-> search],
                                 <<x>>, ListRestaurants(s, search, x))>>
    /\ UNCHANGED tagged
    /\ UNCHANGED <<pc, req, orderID, ret, calls, last, orders, cancelled>>
    /\ UNCHANGED <<signed, payload, tampered, verified, wrapped, resolved>>

CallListDishes ==
    /\ Idle
    /\ \E s \in Services, r \in CatalogRestaurantIDs, c \in CatalogCategoryIDs :
         \E x1 \in ParentExchanges, x2 \in ProductExchanges :
            listing' = <<Listing(s, "ListDishes",
                                 [restaurantID |-> r, categoryID |-> c],
                                 <<x1, x2>>, ListDishes(s, r, c, x1, x2))>>
    /\ UNCHANGED tagged
    /\ UNCHANGED <<pc, req, orderID, ret, calls, last, orders, cancelled>>
    /\ UNCHANGED <<signed, payload, tampered, verified, wrapped, resolved>>

CallListCategories ==
    /\ Idle
    /\ \E s \in Services, r \in CatalogRestaurantIDs, x \in CategoryExchanges :
         listing' = <<Listing(s, "ListCategories", [restaurantID |-> r],
                              <<x>>, ListCategories(s, r, x))>>
    /\ UNCHANGED tagged
    /\ UNCHANGED <<pc, req, orderID, ret, calls, last, orders, cancelled>>
    /\ UNCHANGED <<signed, payload, tampered, verified, wrapped, resolved>>

\* the pieces tag values are put together from
TagTokens ==
    { <<"[">>, <<"]">>, <<",">>, <<" ">>, <<"\"">>,
      <<"\"", "a", "\"">>, <<"\"", "b", "\"">>, <<"n", "u", "l", "l">> }

\* the most pieces in a tag value
MaxTagTokens == 5

\* the tag values of n pieces
TagValuesOf(n) == {Concat(ts) : ts \in [1..n -> TagTokens]}

\* the metadata lists that carry the value v: as the tag entry, alone or
\* after another entry, or under another key; and no metadata at all
MetadatasOf(v) ==
    {<<[Key |-> KeyTags, Value |-> v]>>}
    \cup (IF Len(v) <= 3
          THEN {<<[Key |-> "other", Value |-> <<"[", "]">>],
                  [Key |-> KeyTags, Value |-> v]>>,
                <<[Key |-> "other", Value |-> v]>>}
          ELSE {})
    \cup (IF v = <<>> THEN {<<>>} ELSE {})

CallParseTags ==
    /\ Idle
    /\ \E n \in 0..MaxTagTokens :
         \E v \in TagValuesOf(n) :
            \E meta \in MetadatasOf(v) :
               tagged' = <<[meta |-> meta, tags |-> parseTagsFromMetadata(meta)]>>
    /\ UNCHANGED listing
    /\ UNCHANGED <<pc, req, orderID, ret, calls, last, orders, cancelled>>
    /\ UNCHANGED <<signed, payload, tampered, verified, wrapped, resolved>>

NextCatalog ==
    CallListRestaurants \/ CallListCategories \/ CallListDishes \/ CallParseTags

SpecCatalog == Init /\ [][NextCatalog]_vars

(***************************************************************************)
(* Vocabulary of the properties.                                           *)
(***************************************************************************)
SagaOps == <<"draftOrderCreate", "orderLinesCreate", "draftOrderComplete">>

OpsOf(i) == [k \in DOMAIN calls[i] |-> calls[i][k].op]

IsPrefix(s, t) == Len(s) <= Len(t) /\ s = SubSeq(t, 1, Len(s))

Entered(i) == pc[i] # "idle"

Returned(i) == pc[i] \in {"done", "failed"}

IsBlank(s) == \A k \in 1..Len(s) : s[k] \in WhiteSpace

HasCoordinates(input) == input.DeliveryLocation # <<>>

HasMapsLink(input) == ~IsBlank(input.GoogleMapsURL)

\* the exchange reached the gateway and came back as a well-formed answer
\* without top-level errors
Answered(x) ==
    ~x.neterr /\ x.status \in 200..299 /\ x.errors = <<>> /\ x.data # <<>>

\* the step whose call ended in exchange x succeeded
StepSucceeded(op, x) ==
    /\ Answered(x)
    /\ IF op = "orderLinesCreate"
       THEN x.data[1].order # <<>> \/ x.data[1].errors = <<>>
       ELSE x.data[1].order # <<>>

(***************************************************************************)
(* C1: PlaceOrder issues no gateway call and returns an error whenever     *)
(* the request has an empty restaurant id, an empty items list, both       *)
(* delivery fields set (coordinates and a non-blank maps link) or neither. *)
(***************************************************************************)
BadRequest(input) ==
    \/ input.RestaurantID = <<>>
    \/ input.Items = <<>>
    \/ HasCoordinates(input) /\ HasMapsLink(input)
    \/ ~HasCoordinates(input) /\ ~HasMapsLink(input)

C1_BadRequestRejectedWithoutCall ==
    \A i \in Invs :
        Entered(i) /\ BadRequest(req[i].input)
        => pc[i] = "failed" /\ ret[i].err # <<>> /\ ret[i].result = NoResult
           /\ calls[i] = <<>> /\ last[i] = <<>>

C1_Witness ==
    /\ pc[1] = "failed"
    /\ req[1].input.RestaurantID # <<>>
    /\ req[1].input.Items # <<>>
    /\ HasCoordinates(req[1].input) /\ HasMapsLink(req[1].input)

(***************************************************************************)
(* C2: PlaceOrder is rejected before any gateway call (in particular       *)
(* before draftOrderCreate) whenever a cart item has quantity < 1.         *)
(***************************************************************************)
HasBadQuantity(input) ==
    \E k \in 1..Len(input.Items) : input.Items[k].Quantity < 1

C2_BadQuantityRejectedBeforeAnyCall ==
    \A i \in Invs :
        Entered(i) /\ HasBadQuantity(req[i].input) => calls[i] = <<>>

(***************************************************************************)
(* C3: the gateway mutations of one PlaceOrder invocation are a prefix of  *)
(* create, add-lines, complete: each at most once and in that order, a     *)
(* call is issued only after the step before it succeeded, and after a     *)
(* step failed (or PlaceOrder returned) the invocation issues no call.     *)
(***************************************************************************)
C3_CallsArePrefix == \A i \in Invs : IsPrefix(OpsOf(i), SagaOps)

C3_CallStep ==
    \A i \in Invs :
        calls'[i] # calls[i]
        => /\ ~Returned(i)
           /\ Len(calls'[i]) = Len(calls[i]) + 1
           /\ SubSeq(calls'[i], 1, Len(calls[i])) = calls[i]
           /\ calls[i] # <<>>
              => StepSucceeded(calls[i][Len(calls[i])].op, last[i][1])

C3_SagaSequence == []C3_CallsArePrefix /\ [][C3_CallStep]_vars

C3_Witness ==
    /\ pc[1] = "failed"
    /\ OpsOf(1) = <<"draftOrderCreate", "orderLinesCreate">>
    /\ ~StepSucceeded("orderLinesCreate", last[1][1])

(***************************************************************************)
(* C4: when step 1 succeeded and a later step fails, the saga issues no    *)
(* compensating call and the order of step 1 still exists at the gateway   *)
(* when PlaceOrder has returned its error.                                 *)
(***************************************************************************)
C4_NoCompensation ==
    \A i \in Invs :
        pc[i] = "failed" /\ orderID[i] # <<>>
        => /\ orderID[i] \in orders
           /\ ret[i].err # <<>>
           /\ \A k \in DOMAIN calls[i] :
                calls[i][k].op \in {SagaOps[n] : n \in DOMAIN SagaOps}

C4_Witness ==
    /\ pc[1] = "failed"
    /\ orderID[1] # <<>>
    /\ OpsOf(1) = SagaOps

(***************************************************************************)
(* C5: an invocation made after (or beside) one that failed in step 2 or   *)
(* 3 starts with a draftOrderCreate call of its own and never sends        *)
(* add-lines or complete for the failed invocation's order id; the create  *)
(* call carries the four input fields only, no key that ties invocations.  *)
(***************************************************************************)
CreateInputFields == {"channelId", "userEmail", "customerNote", "metadata"}

C5_ReinvocationCreatesAnew ==
    \A i, j \in Invs :
        i # j /\ pc[i] = "failed" /\ orderID[i] # <<>>
        => /\ calls[j] # <<>>
              => /\ calls[j][1].op = "draftOrderCreate"
                 /\ DOMAIN calls[j][1].vars = {"input"}
                 /\ DOMAIN calls[j][1].vars.input = CreateInputFields
           /\ \A k \in 2..Len(calls[j]) : calls[j][k].vars.id # orderID[i]

C5_Witness ==
    /\ pc[1] = "failed"
    /\ orderID[1] # <<>>
    /\ pc[2] = "done"
    /\ Len(calls[2]) = 3

(***************************************************************************)
(* C6: when PlaceOrder succeeds, the returned order id and status are      *)
(* those of the draftOrderComplete response, the status unchanged, not     *)
(* those of the draftOrderCreate response.                                 *)
(***************************************************************************)
C6_ResultIsCompleteResponse ==
    \A i \in Invs :
        pc[i] = "done"
        => LET reported == ReportedOrder(last[i][1])
           IN  /\ calls[i][Len(calls[i])].op = "draftOrderComplete"
               /\ reported # <<>>
               /\ ret[i].err = <<>>
               /\ ret[i].result.OrderID = reported[1].ID
               /\ ret[i].result.Status = reported[1].Status

C6_Witness ==
    /\ pc[1] = "done"
    /\ ret[1].result.OrderID # orderID[1]
    /\ ret[1].result.Status = "UNCONFIRMED"

(***************************************************************************)
(* C7: every draftOrderCreate call carries metadata with the user id, the  *)
(* restaurant id and exactly one delivery form: lat and lng and no maps    *)
(* link for coordinates, the maps link and no lat/lng for a maps link.     *)
(***************************************************************************)
MetaKeys(m) == {m[n].key : n \in DOMAIN m}

MetaValues(m, key) == {m[n].value : n \in {n \in DOMAIN m : m[n].key = key}}

CreateCalls(i) == {k \in DOMAIN calls[i] : calls[i][k].op = "draftOrderCreate"}

C7_CreateMetadata ==
    \A i \in Invs : \A k \in CreateCalls(i) :
        LET m == calls[i][k].vars.input.metadata
            input == req[i].input
            uids == MetaValues(m, "tma.telegramUserId")
        IN  /\ \A n1, n2 \in DOMAIN m : m[n1].key = m[n2].key => n1 = n2
            /\ \E v \in uids : ParseInt(v) = [ok |-> TRUE, val |-> req[i].telegramUserID]
            /\ MetaValues(m, "tma.restaurantId") = {input.RestaurantID}
            /\ HasCoordinates(input)
               => /\ {"tma.delivery.lat", "tma.delivery.lng"} \subseteq MetaKeys(m)
                  /\ "tma.delivery.googleMapsUrl" \notin MetaKeys(m)
            /\ ~HasCoordinates(input)
               => /\ MetaValues(m, "tma.delivery.googleMapsUrl") = {input.GoogleMapsURL}
                  /\ HasMapsLink(input)
                  /\ "tma.delivery.lat" \notin MetaKeys(m)
                  /\ "tma.delivery.lng" \notin MetaKeys(m)

C7_Witness ==
    /\ CreateCalls(1) # {}
    /\ HasCoordinates(req[1].input)
    /\ CreateCalls(2) # {}
    /\ ~HasCoordinates(req[2].input)

(***************************************************************************)
(* C8: the customer identity of the create call is tg-<userId>@tma.local,  *)
(* a function of the user id alone: equal user ids give equal identities   *)
(* and different user ids give different identities.                       *)
(***************************************************************************)
EmailPrefix == <<"t", "g", "-">>

EmailSuffix == <<"@", "t", "m", "a", ".", "l", "o", "c", "a", "l">>

\* email is tg-<decimal of uid>@tma.local
IsIdentityOf(email, uid) ==
    LET n == Len(email)
    IN  /\ n > Len(EmailPrefix) + Len(EmailSuffix)
        /\ SubSeq(email, 1, Len(EmailPrefix)) = EmailPrefix
        /\ SubSeq(email, n - Len(EmailSuffix) + 1, n) = EmailSuffix
        /\ ParseInt(SubSeq(email, Len(EmailPrefix) + 1, n - Len(EmailSuffix)))
             = [ok |-> TRUE, val |-> uid]

C8_IdentityFromUserID ==
    \A i, j \in Invs : \A k \in CreateCalls(i), l \in CreateCalls(j) :
        LET ei == calls[i][k].vars.input.userEmail
            ej == calls[j][l].vars.input.userEmail
        IN  /\ IsIdentityOf(ei, req[i].telegramUserID)
            /\ (ei = ej) <=> (req[i].telegramUserID = req[j].telegramUserID)

C8_Witness ==
    /\ CreateCalls(1) # {}
    /\ CreateCalls(2) # {}
    /\ req[1].telegramUserID = -req[2].telegramUserID

(***************************************************************************)
(* Vocabulary of the init-data properties.                                 *)
(***************************************************************************)
\* the fields VerifyInitData reads from the payload it was given
Received == ParseQuery(payload).values

\* the fields the signature covers
SignedFieldsOf(values) == [k \in DOMAIN values \ {KeyHash} |-> values[k]]

\* the payload still carries the hash the signer gave it
HashAsSigned == Get(Received, KeyHash) = Get(signed[1].values, KeyHash)

\* the verifier's expiry test would let the signer's auth_date pass
NotExpired ==
    ~(verified[1].maxAge > 0
      /\ verified[1].now - signed[1].authDate > verified[1].maxAge)

SignatureMismatch == Rejected("signature mismatch")

C10_AnyChangeRejected ==
    /\ verified # <<>>
    /\ HashAsSigned
    /\ \/ verified[1].botToken # signed[1].botToken
       \/ SignedFieldsOf(Received) # SignedFieldsOf(signed[1].values)
    => verified[1].out = SignatureMismatch

(***************************************************************************)
(* C10, amended: a signed payload verified with a different secret, or     *)
(* whose signed fields were changed after signing so that the data-check   *)
(* string (the sorted key=value pairs joined by newlines) is no longer the *)
(* signed one, fails with a signature mismatch and yields no identity.     *)
(***************************************************************************)
C10_ChangedDataCheckStringRejected ==
    /\ verified # <<>>
    /\ HashAsSigned
    /\ \/ verified[1].botToken # signed[1].botToken
       \/ DataCheckString(Received) # DataCheckString(signed[1].values)
    => verified[1].out = SignatureMismatch

C10_Witness ==
    /\ verified # <<>>
    /\ HashAsSigned
    /\ verified[1].botToken = signed[1].botToken
    /\ signed[1].userID = 7
    /\ Get(Received, KeyUser) = UserJSON(9)
    /\ SignedFieldsOf(Received) # SignedFieldsOf(signed[1].values)
    /\ verified[1].out = SignatureMismatch

(***************************************************************************)
(* C11: a correctly signed payload whose auth_date is older than a         *)
(* positive maxAge (now - auth_date > maxAge) fails as expired; verified   *)
(* with maxAge = 0 it passes the expiry test however old auth_date is.     *)
(***************************************************************************)
CorrectlySigned ==
    /\ verified # <<>>
    /\ payload = signed[1].initData
    /\ verified[1].botToken = signed[1].botToken

Expired == Rejected("auth_date expired")

C11_ExpiryOnlyForPositiveMaxAge ==
    CorrectlySigned =>
        /\ verified[1].maxAge > 0
           /\ verified[1].now - signed[1].authDate > verified[1].maxAge
           => verified[1].out = Expired
        /\ verified[1].maxAge = 0
           => /\ verified[1].out # Expired
              /\ signed[1].userID # 0 => verified[1].out.err = <<>>

C11_Witness ==
    /\ CorrectlySigned
    /\ verified[1].maxAge = 1
    /\ verified[1].now - signed[1].authDate = 2
    /\ signed[1].userID = 7
    /\ verified[1].out = Expired

C11_WitnessZeroMaxAge ==
    /\ CorrectlySigned
    /\ verified[1].maxAge = 0
    /\ verified[1].now - signed[1].authDate = 3
    /\ verified[1].out.err = <<>>

(***************************************************************************)
(* C12: changing the letter case of the hex digits of the hash field of a  *)
(* payload never changes the outcome of VerifyInitData: the same success   *)
(* with the same identity, or the same failure.                            *)
(***************************************************************************)
\* the payload differs from the signed one in the case of its hash only
HashRecased ==
    /\ signed # <<>>
    /\ SignedFieldsOf(Received) = SignedFieldsOf(signed[1].values)
    /\ Get(Received, KeyHash) # Get(signed[1].values, KeyHash)
    /\ \/ Get(Received, KeyHash) = ToUpper(Get(signed[1].values, KeyHash))
       \/ Get(Received, KeyHash) = ToUpperFirstHalf(Get(signed[1].values, KeyHash))

C12_HashCaseIrrelevant ==
    verified # <<>> /\ HashRecased =>
        verified[1].out = VerifyInitData(signed[1].initData, verified[1].botToken,
                                         verified[1].maxAge, verified[1].now)

C12_Witness ==
    /\ verified # <<>>
    /\ HashRecased
    /\ Get(Received, KeyHash) = ToUpper(Get(signed[1].values, KeyHash))
    /\ verified[1].out.err = <<>>
    /\ verified[1].out.result.User.ID = 7

C12_WitnessFailure ==
    /\ verified # <<>>
    /\ HashRecased
    /\ verified[1].botToken # signed[1].botToken
    /\ verified[1].out = SignatureMismatch

(***************************************************************************)
(* C13: VerifyInitData returns an identity only if the payload has a hash  *)
(* field, a numeric auth_date and a user field that is well-formed JSON    *)
(* with a non-zero integer id; a payload missing any of these, even when   *)
(* correctly signed, yields an error and no identity.                      *)
(***************************************************************************)
\* s is the decimal text of one of the numbers
IsDecimalOf(s, numbers) == \E n \in numbers : s = FormatInt(n)

\* s is a user object with a non-zero integer id
IsUserWithID(s) == \E n \in (-99..99) \ {0} : s = UserJSON(n)

WellFormed ==
    /\ Get(Received, KeyHash) # <<>>
    /\ IsDecimalOf(Get(Received, KeyAuthDate), 0..99)
    /\ IsUserWithID(Get(Received, KeyUser))

\* the payload carries the signature of its own fields under the verifier's
\* token
SignedAsReceived ==
    Get(Received, KeyHash) = Signature(verified[1].botToken, Received)

C13_IdentityOnlyFromWellFormed ==
    verified # <<>> =>
        /\ verified[1].out.err = <<>> => WellFormed
        /\ ~WellFormed => /\ verified[1].out.err # <<>>
                          /\ verified[1].out.result = NoAuthResult

C13_Witness ==
    /\ verified # <<>>
    /\ SignedAsReceived
    /\ KeyAuthDate \notin DOMAIN Received
    /\ IsUserWithID(Get(Received, KeyUser))
    /\ verified[1].out = Rejected("missing auth_date")

C13_WitnessBadUser ==
    /\ verified # <<>>
    /\ SignedAsReceived
    /\ Get(Received, KeyUser) = <<"{">>
    /\ verified[1].out = Rejected("invalid user json")

C13_WitnessBadAuthDate ==
    /\ verified # <<>>
    /\ SignedAsReceived
    /\ Get(Received, KeyAuthDate) = <<"q">>
    /\ verified[1].out = Rejected("invalid auth_date")

C13_WitnessNoHash ==
    /\ verified # <<>>
    /\ KeyHash \notin DOMAIN Received
    /\ verified[1].out = Rejected("missing hash")

(***************************************************************************)
(* Vocabulary of the properties of the HTTP boundary.                      *)
(***************************************************************************)
\* the hash of the payload is not the signature of its fields under the
\* middleware's token
SignatureFails ==
    /\ Get(Received, KeyHash) # <<>>
    /\ ToLower(Get(Received, KeyHash))
         # Signature(wrapped[1].m.BotToken, Received)

\* the payload's auth_date is older than the middleware's positive MaxAge
TooOld ==
    /\ wrapped[1].m.MaxAge > 0
    /\ IsDecimalOf(Get(Received, KeyAuthDate),
                   {n \in 0..99 : wrapped[1].now - n > wrapped[1].m.MaxAge})

\* the one response to a payload that fails verification
InvalidInitData ==
    [status |-> 401, body |-> <<"invalid telegram init data", "\n">>,
     ctx |-> <<>>, next |-> FALSE]

(***************************************************************************)
(* C14: every present identity payload that fails verification, whether    *)
(* malformed, with a signature mismatch or expired, gets the same response *)
(* from the middleware (status 401, the same body), so that any two such   *)
(* responses are identical, and the wrapped handler is not invoked.        *)
(***************************************************************************)
C14_UniformUnauthorized ==
    /\ wrapped # <<>>
    /\ wrapped[1].initData # <<>>
    /\ ~WellFormed \/ SignatureFails \/ TooOld
    => /\ wrapped[1].response = InvalidInitData
       /\ resolved = <<>>

\* an expired payload, well-formed and correctly signed
C14_Witness ==
    /\ wrapped # <<>>
    /\ WellFormed /\ ~SignatureFails /\ TooOld
    /\ wrapped[1].response = InvalidInitData
    /\ resolved = <<>>

\* a payload with a signature mismatch, well-formed and not expired
C14_WitnessMismatch ==
    /\ wrapped # <<>>
    /\ WellFormed /\ SignatureFails /\ ~TooOld
    /\ wrapped[1].response = InvalidInitData

\* a malformed payload, correctly signed and not expired
C14_WitnessMalformed ==
    /\ wrapped # <<>>
    /\ wrapped[1].initData # <<>>
    /\ ~WellFormed /\ ~SignatureFails /\ ~TooOld
    /\ Get(Received, KeyHash) # <<>>
    /\ wrapped[1].response = InvalidInitData

(***************************************************************************)
(* C15: each of the four operations (restaurants, restaurantCategories,    *)
(* categoryDishes, placeOrder) fails with the unauthenticated error and    *)
(* does not reach the ordering service when the request context carries no *)
(* verified identity; the service is called only with the user id of an    *)
(* identity that passed verification.                                      *)
(***************************************************************************)
C15_ResolversRequireIdentity ==
    resolved # <<>> =>
        /\ resolved[1].ctx = <<>>
           => /\ resolved[1].out.err = <<ErrUnauthenticated>>
              /\ resolved[1].out.call = <<>>
        /\ resolved[1].out.call # <<>>
           => /\ wrapped # <<>>
              /\ WellFormed /\ ~SignatureFails /\ ~TooOld
              /\ resolved[1].op = "placeOrder"
                 => /\ resolved[1].out.call[1].telegramUserID # <<>>
                    /\ Get(Received, KeyUser)
                         = UserJSON(resolved[1].out.call[1].telegramUserID[1])

C15_Witness ==
    /\ resolved # <<>>
    /\ resolved[1].ctx = <<>>
    /\ resolved[1].op = "placeOrder"
    /\ resolved[1].out.err = <<ErrUnauthenticated>>
    /\ resolved[1].out.call = <<>>

C15_WitnessVerified ==
    /\ resolved # <<>>
    /\ resolved[1].op = "placeOrder"
    /\ resolved[1].out.call =
         <<[method |-> "PlaceOrder", telegramUserID |-> <<7>>]>>

(***************************************************************************)
(* Vocabulary of the catalog properties.                                   *)
(***************************************************************************)
Called(op) == listing # <<>> /\ listing[1].op = op

\* the gateway answered the k-th query of the call with data and no error
AnsweredAt(k) ==
    /\ k <= Len(listing[1].exchanges)
    /\ ~listing[1].exchanges[k].neterr
    /\ listing[1].exchanges[k].errors = <<>>
    /\ listing[1].exchanges[k].data # <<>>

DataAt(k) == listing[1].exchanges[k].data[1]

QueriedOps == {listing[1].queries[k].op : k \in DOMAIN listing[1].queries}

\* the k-th smallest member of a set of numbers
Nth(S, k) == CHOOSE p \in S : Cardinality({q \in S : q < p}) = k - 1

\* the gateway reported the category, and with it no parent
ReportedNoParent ==
    /\ Called("ListDishes") /\ AnsweredAt(1)
    /\ DataAt(1).category # <<>>
    /\ DataAt(1).category[1].parent = <<>>

\* the gateway reported the category with a parent other than the restaurant
ReportedOtherParent ==
    /\ Called("ListDishes") /\ AnsweredAt(1)
    /\ DataAt(1).category # <<>>
    /\ DataAt(1).category[1].parent # <<>>
    /\ DataAt(1).category[1].parent[1].id # listing[1].args.restaurantID

\* C16: whenever the gateway reports that the category has no parent, or a
\* parent other than the restaurant asked for, ListDishes returns the error
\* "category does not belong to restaurant", returns no dish, and never
\* issues the products query.
C16_ForeignCategoryRejected ==
    ReportedNoParent \/ ReportedOtherParent =>
        /\ listing[1].out.err = <<"category does not belong to restaurant">>
        /\ listing[1].out.result = <<>>
        /\ "CategoryDishes" \notin QueriedOps
        /\ Len(listing[1].queries) = 1

C16_Witness ==
    /\ ReportedOtherParent
    /\ listing[1].out.err = <<"category does not belong to restaurant">>

C16_WitnessNoParent ==
    /\ ReportedNoParent
    /\ listing[1].out.err = <<"category does not belong to restaurant">>

\* the parent matched and the gateway answered the products query
ProductsReturned == Called("ListDishes") /\ AnsweredAt(2)

Products == DataAt(2).products

WithVariants == {p \in DOMAIN Products : Len(Products[p].Variants) >= 1}

\* C17: when the products query is answered, ListDishes returns without
\* error as many dishes as there are returned products with at least one
\* variant; the k-th dish comes from the k-th such product, in the products'
\* order, and its id is the id of that product's first variant. A product
\* without variants gives no dish.
C17_OneDishPerProductWithVariants ==
    ProductsReturned =>
        /\ listing[1].out.err = <<>>
        /\ Len(listing[1].out.result) = Cardinality(WithVariants)
        /\ \A k \in DOMAIN listing[1].out.result :
             /\ listing[1].out.result[k].ProductID
                    = Products[Nth(WithVariants, k)].ID
             /\ listing[1].out.result[k].ID
                    = Products[Nth(WithVariants, k)].Variants[1].ID

\* a product without variants is skipped ahead of one with two variants
C17_Witness ==
    /\ ProductsReturned
    /\ Len(Products) = 2
    /\ Products[1].Variants = <<>>
    /\ Len(Products[2].Variants) = 2
    /\ Products[2].Variants[1].ID # Products[2].Variants[2].ID
    /\ Len(listing[1].out.result) = 1

C17_WitnessOrder ==
    /\ ProductsReturned
    /\ Len(listing[1].out.result) = 2
    /\ listing[1].out.result[1].ProductID # listing[1].out.result[2].ProductID

RootConfigured ==
    Called("ListRestaurants") /\ listing[1].s.restaurantRootCategoryID # ""

NoRootConfigured ==
    Called("ListRestaurants") /\ listing[1].s.restaurantRootCategoryID = ""

SearchGiven ==
    Called("ListRestaurants") /\ TrimSpace(listing[1].args.search) # <<>>

\* the ids of the categories the gateway listed in its answer
ListedIDs(edges) == [k \in DOMAIN edges |-> edges[k].ID]

\* C19: ListRestaurants issues exactly one gateway query, and which one
\* depends on the configuration alone: with a root category configured it
\* asks for the children of that category, otherwise for the categories of
\* level 0, whatever the search text is; the restaurants returned are the
\* categories of the answer, in order.
C19_QueryChosenByConfiguration ==
    /\ RootConfigured =>
         /\ listing[1].queries
              = <<Call("RestaurantsFromRoot",
                       [id |-> listing[1].s.restaurantRootCategoryID])>>
         /\ AnsweredAt(1) /\ DataAt(1).category # <<>> =>
               ListedIDs(listing[1].out.result)
                 = ListedIDs(DataAt(1).category[1].children)
    /\ NoRootConfigured =>
         /\ Len(listing[1].queries) = 1
         /\ listing[1].queries[1].op = "RestaurantsTopLevel"
         /\ listing[1].queries[1].vars.level = 0
         /\ AnsweredAt(1) =>
               ListedIDs(listing[1].out.result) = ListedIDs(DataAt(1).categories)

\* a search text is given and the root category is still what is queried
C19_Witness ==
    /\ RootConfigured /\ SearchGiven
    /\ listing[1].queries[1].op = "RestaurantsFromRoot"
    /\ Len(listing[1].out.result) = 2

C19_WitnessTopLevel ==
    /\ NoRootConfigured /\ ~SearchGiven
    /\ listing[1].queries[1].op = "RestaurantsTopLevel"
    /\ Len(listing[1].out.result) = 2

\* C20: whenever ListRestaurants is called with a non-blank search text, the
\* one query it issues carries that text as its search filter, with and
\* without a configured root category.
C20_SearchPassedInEveryConfiguration ==
    SearchGiven =>
        /\ Len(listing[1].queries) = 1
        /\ "filter" \in DOMAIN listing[1].queries[1].vars
        /\ listing[1].queries[1].vars.filter
             = <<[search |-> listing[1].args.search]>>

(***************************************************************************)
(* Vocabulary of the tag properties. A tag text is read here from its      *)
(* shape: the places of its quotes and commas, not by scanning it.         *)
(***************************************************************************)
TagEntries == {k \in DOMAIN tagged[1].meta : tagged[1].meta[k].Key = KeyTags}

\* the trimmed value of the tag entry, empty when there is no entry
TagText ==
    IF TagEntries = {} THEN <<>>
    ELSE TrimSpace(tagged[1].meta[CHOOSE k \in TagEntries : TRUE].Value)

QuotesOf(v) == {k \in 1..Len(v) : v[k] = "\""}

QuotesBefore(v, k) == Cardinality({q \in QuotesOf(v) : q < k})

\* the text of the j-th string literal of v
Literal(v, j) ==
    SubSeq(v, Nth(QuotesOf(v), 2 * j - 1) + 1, Nth(QuotesOf(v), 2 * j) - 1)

\* v with every string literal replaced by the one mark "STRING"
Skeleton(v) ==
    LET marks == [k \in 1..Len(v) |->
                    IF QuotesBefore(v, k) % 2 = 1 THEN ""
                    ELSE IF v[k] = "\"" THEN "STRING"
                    ELSE v[k]]
    IN  SelectSeq(marks, LAMBDA c : c # "")

\* the parts between the brackets of a skeleton, trimmed
PartsOf(sk) ==
    LET inner == SubSeq(sk, 2, Len(sk) - 1)
        parts == Split(inner, ",")
    IN  IF TrimSpace(inner) = <<>> THEN <<>>
        ELSE [k \in 1..Len(parts) |-> TrimSpace(parts[k])]

\* v is a JSON array each of whose elements is of one of the allowed forms
IsArrayOf(v, allowed) ==
    /\ Cardinality(QuotesOf(v)) % 2 = 0
    /\ LET sk == Skeleton(v)
       IN  /\ Len(sk) >= 2 /\ sk[1] = "[" /\ sk[Len(sk)] = "]"
           /\ \A k \in DOMAIN PartsOf(sk) : PartsOf(sk)[k] \in allowed

\* the elements of such an array: the text of a string, "" for a null
ElementsOf(v) ==
    LET parts == PartsOf(Skeleton(v))
    IN  [k \in DOMAIN parts |->
            IF parts[k] = <<"STRING">>
            THEN Literal(v, Cardinality({j \in 1..k : parts[j] = <<"STRING">>}))
            ELSE <<>>]

AString == {<<"STRING">>}

AStringOrNull == {<<"STRING">>, <<"n", "u", "l", "l">>}

\* where the comma-separated pieces of v begin: after position b
PieceStarts(v) == {0} \cup {k \in 1..Len(v) : v[k] = ","}

Piece(v, b) ==
    LET ends == {k \in (b + 1)..Len(v) : v[k] = ","} \cup {Len(v) + 1}
    IN  TrimSpace(SubSeq(v, b + 1, Nth(ends, 1) - 1))

\* the comma-separated tokens of v: trimmed, the empty ones dropped, in order
CommaTokens(v) ==
    LET kept == {b \in PieceStarts(v) : Piece(v, b) # <<>>}
    IN  [k \in 1..Cardinality(kept) |-> Piece(v, Nth(kept, k))]

TagsFor(v, allowed) ==
    IF v = <<>> THEN <<>>
    ELSE IF IsArrayOf(v, allowed) THEN ElementsOf(v)
    ELSE CommaTokens(v)

\* C18 as claimed: the tags are the array when the trimmed tag text is a valid
\* JSON array of strings, the trimmed non-empty comma-separated tokens for
\* any other non-empty text, and empty for an absent or empty entry.
C18_TagsAsClaimed ==
    tagged # <<>> => tagged[1].tags = TagsFor(TagText, AString)

\* C18: parsing tags never fails and gives, for a trimmed tag text that is a
\* JSON array whose elements are strings or null, the elements in order
\* with "" for each null; for any other non-empty text, bracketed or not,
\* its comma-separated tokens in order, trimmed, the empty ones dropped;
\* and no tag for an absent or empty entry.
C18_TagsAsParsed ==
    tagged # <<>> => tagged[1].tags = TagsFor(TagText, AStringOrNull)

\* a JSON array of two different strings
C18_Witness ==
    /\ tagged # <<>> /\ IsArrayOf(TagText, AString)
    /\ tagged[1].tags = <<(<<"a">>), (<<"b">>)>>

\* an array with a null element
C18_WitnessNull ==
    /\ tagged # <<>> /\ IsArrayOf(TagText, AStringOrNull)
    /\ ~IsArrayOf(TagText, AString)
    /\ Len(tagged[1].tags) = 2

\* a bracketed text that is no array falls back to the comma reading
C18_WitnessBracketFallback ==
    /\ tagged # <<>> /\ HasPrefix(TagText, <<"[">>)
    /\ ~IsArrayOf(TagText, AStringOrNull)
    /\ Len(tagged[1].tags) = 2

C18_WitnessCommas ==
    /\ tagged # <<>> /\ ~HasPrefix(TagText, <<"[">>)
    /\ tagged[1].tags = <<(<<"n", "u", "l", "l">>), (<<"]">>)>>
    /\ Len(TagText) > 6

C18_WitnessNoEntry ==
    /\ tagged # <<>> /\ TagEntries = {} /\ tagged[1].meta # <<>>
    /\ tagged[1].tags = <<>>

\* the gateway answered, and reported that the category asked for is not there
ReportedNoCategory == AnsweredAt(1) /\ DataAt(1).category = <<>>

MissingRestaurant == Called("ListCategories") /\ ReportedNoCategory

MissingRoot == RootConfigured /\ ReportedNoCategory

\* C21: when the gateway reports that the parent asked for does not exist,
\* the restaurant of ListCategories or the configured root category of
\* ListRestaurants, the call returns a not-found error and no list; it
\* never returns an empty list without error.
C21_MissingParentIsNotFound ==
    /\ MissingRestaurant =>
         /\ listing[1].out.err = <<"restaurant category not found">>
         /\ listing[1].out.result = <<>>
    /\ MissingRoot =>
         /\ listing[1].out.err = <<"root category not found">>
         /\ listing[1].out.result = <<>>

C21_Witness ==
    /\ MissingRestaurant
    /\ listing[1].out.err # <<>>
    /\ Len(listing[1].queries) = 1

C21_WitnessRoot ==
    /\ MissingRoot
    /\ listing[1].out.err # <<>>

\* a restaurant that exists and has no category is an empty list, no error
C21_WitnessEmpty ==
    /\ Called("ListCategories") /\ AnsweredAt(1)
    /\ DataAt(1).category # <<>>
    /\ DataAt(1).category[1].children = <<>>
    /\ listing[1].out = Return(<<>>, <<>>)

(***************************************************************************)
(* C22: however concurrent PlaceOrder invocations interleave, the          *)
(* add-lines and complete calls of an invocation carry the id of the order *)
(* that its own create call got back, and add-lines carries exactly the    *)
(* lines of its own cart; a step of one invocation leaves the request,     *)
(* order id, calls and result of every other invocation as they were.      *)
(***************************************************************************)
LinesOfCart(input) ==
    [k \in DOMAIN input.Items |->
        [variantId |-> input.Items[k].DishID,
         quantity |-> input.Items[k].Quantity]]

LaterCalls(i) == {k \in DOMAIN calls[i] : calls[i][k].op # "draftOrderCreate"}

C22_OwnOrderAndLines ==
    \A i \in Invs : \A k \in LaterCalls(i) :
        /\ calls[i][k].vars.id = OrderIDOf(i)
        /\ calls[i][k].vars.id = orderID[i]
        /\ calls[i][k].op = "orderLinesCreate"
           => calls[i][k].vars.input = LinesOfCart(req[i].input)

C22_StepIsLocal ==
    \A i, j \in Invs :
        i # j /\ <<pc[i], calls[i]>> # <<pc'[i], calls'[i]>>
        => /\ pc'[j] = pc[j]
           /\ req'[j] = req[j]
           /\ orderID'[j] = orderID[j]
           /\ calls'[j] = calls[j]
           /\ ret'[j] = ret[j]

C22_InvocationsIsolated == []C22_OwnOrderAndLines /\ [][C22_StepIsLocal]_vars

\* two invocations in flight together, past add-lines, with different carts
C22_Witness ==
    /\ Len(calls[1]) >= 2 /\ Len(calls[2]) >= 2
    /\ pc[1] = "completing" /\ pc[2] = "completing"
    /\ calls[1][2].vars.input # calls[2][2].vars.input
    /\ calls[1][2].vars.id # calls[2][2].vars.id

(***************************************************************************)
(* Vocabulary of the error properties of the saga.                         *)
(***************************************************************************)
LastOp(i) == calls[i][Len(calls[i])].op

\* invocation i's latest call was op and the gateway sent an answer to it
AnswerTo(i, op) ==
    /\ calls[i] # <<>> /\ LastOp(i) = op
    /\ last[i] # <<>> /\ ~last[i][1].neterr
    /\ last[i][1].status = 200

\* the errors an answer reports: the top-level ones, else the mutation's
ReportedErrors(x) ==
    IF x.errors # <<>> THEN x.errors
    ELSE IF x.data # <<>> THEN x.data[1].errors
    ELSE <<>>

\* the answer carries no order: the mutation gave none, or Do gave no data
NoOrderIn(x) == x.errors # <<>> \/ x.data = <<>> \/ x.data[1].order = <<>>

FailedWithMessage(i, message) ==
    /\ pc[i] = "failed"
    /\ ret[i].result = NoResult
    /\ ret[i].err # <<>>
    /\ ret[i].err[Len(ret[i].err)] = message

C23_WitnessCompleting ==
    /\ AnswerTo(1, "draftOrderComplete")
    /\ last[1][1].errors = <<>>
    /\ ret[1].err = <<"saleor draftOrderComplete: ", "e1">>
    /\ pc[1] = "failed"

(***************************************************************************)
(* C24: when the answer to draftOrderCreate has no order, PlaceOrder fails *)
(* with the first reported error message if the answer reports errors and  *)
(* with the generic "saleor draftOrderCreate failed" if it reports none;   *)
(* in both cases draftOrderCreate stays the only call of the invocation.   *)
(***************************************************************************)
CreateGaveNoOrder(i) ==
    /\ AnswerTo(i, "draftOrderCreate")
    /\ last[i][1].errors = <<>> /\ last[i][1].data # <<>>
    /\ last[i][1].data[1].order = <<>>

C24_CreateWithoutOrderFails ==
    \A i \in Invs :
        CreateGaveNoOrder(i)
        => /\ pc[i] = "failed"
           /\ ret[i].result = NoResult
           /\ OpsOf(i) = <<"draftOrderCreate">>
           /\ orderID[i] = <<>>
           /\ IF last[i][1].data[1].errors # <<>>
              THEN ret[i].err
                     = <<"saleor draftOrderCreate: ", last[i][1].data[1].errors[1]>>
              ELSE ret[i].err = <<"saleor draftOrderCreate failed">>

C24_Witness ==
    /\ CreateGaveNoOrder(1)
    /\ ret[1].err = <<"saleor draftOrderCreate: ", "e1">>

C24_WitnessGeneric ==
    /\ CreateGaveNoOrder(1)
    /\ last[1][1].data[1].errors = <<>>
    /\ ret[1].err = <<"saleor draftOrderCreate failed">>

(***************************************************************************)
(* C25: when a call of the saga fails at the transport, the error that     *)
(* PlaceOrder returns names the step that failed, so that transport        *)
(* failures of different steps give different errors.                      *)
(***************************************************************************)
TransportFailed(i) ==
    /\ pc[i] = "failed" /\ calls[i] # <<>>
    /\ last[i] # <<>> /\ last[i][1].neterr

\* the text the saga wraps an error of step op in
StepName(op) ==
    CASE op = "draftOrderCreate" -> "saleor draftOrderCreate: "
      [] op = "orderLinesCreate" -> "saleor orderLinesCreate: "
      [] op = "draftOrderComplete" -> "saleor draftOrderComplete: "

NamesStep(err, op) ==
    \E k \in DOMAIN err : err[k] = op \/ err[k] = StepName(op)

C25_TransportErrorNamesStep ==
    /\ \A i \in Invs : TransportFailed(i) => NamesStep(ret[i].err, LastOp(i))
    /\ \A i, j \in Invs :
         TransportFailed(i) /\ TransportFailed(j) /\ LastOp(i) # LastOp(j)
         => ret[i].err # ret[j].err

\* two invocations whose transport failed in different steps, one error
C25_SameErrorInTwoSteps ==
    /\ TransportFailed(1) /\ TransportFailed(2)
    /\ LastOp(1) # LastOp(2)
    /\ ret[1].err = ret[2].err

(***************************************************************************)
(* C26: a request that passed the pre-flight checks and has an item of     *)
(* quantity <= 0 aborts in the filling step after draftOrderCreate         *)
(* succeeded: the order exists at the gateway, PlaceOrder returns the      *)
(* quantity error, and neither orderLinesCreate (for any item) nor         *)
(* draftOrderComplete is issued.                                           *)
(***************************************************************************)
HasNonPositiveQuantity(input) ==
    \E k \in DOMAIN input.Items : input.Items[k].Quantity <= 0

CreatedWithBadQuantity(i) ==
    /\ Entered(i)
    /\ validatePlaceOrderInput(req[i].input) = <<>>
    /\ HasNonPositiveQuantity(req[i].input)
    /\ orderID[i] # <<>>

LinesInKeyOrder(values) ==
    Join(Pairs(values, SortedKeys(DOMAIN values \ {KeyHash})), <<"\n">>)

\* the lists that hold every element of S once
Orderings(S) ==
    {o \in [1..Cardinality(S) -> S] : \A x \in S : \E k \in DOMAIN o : o[k] = x}

\* the string does not depend on the order the fields are ranged over
SameForEveryOrdering(values) ==
    \A keys \in Orderings(DOMAIN values \ {KeyHash}) :
        Join(SortStrings(Pairs(values, keys)), <<"\n">>) = DataCheckString(values)

\* every field but hash has its line in the string
EveryFieldInLines(values) ==
    \A k \in DOMAIN values \ {KeyHash} :
        \E n \in DOMAIN Split(DataCheckString(values), "\n") :
            Split(DataCheckString(values), "\n")[n] = k \o <<"=">> \o Get(values, k)

C27_LinesInKeyOrder ==
    verified # <<>> /\ ParseQuery(payload).err = <<>>
    => /\ DataCheckString(Received) = LinesInKeyOrder(Received)
       /\ SameForEveryOrdering(Received)
       /\ EveryFieldInLines(Received)

\* what does hold: order independence and the extra fields
C27_StableAndComplete ==
    verified # <<>> /\ ParseQuery(payload).err = <<>>
    => /\ SameForEveryOrdering(Received)
       /\ EveryFieldInLines(Received)

\* a signed payload with the fields user and user1: user1 comes first
C27_PrefixKeyOutOfOrder ==
    /\ verified # <<>> /\ payload = signed[1].initData
    /\ KeyUser \o <<"1">> \in DOMAIN Received
    /\ DataCheckString(Received) # LinesInKeyOrder(Received)
    /\ verified[1].botToken = signed[1].botToken
    /\ verified[1].out.err = <<>>

(***************************************************************************)
(* C28: when the envelope of a gateway answer has a non-empty top-level    *)
(* error list, Client.Do returns an error that carries the first message   *)
(* as it was reported and decodes nothing, also when the envelope has data *)
(* as well; the listing that made the call returns that error and no list  *)
(* and issues no further query.                                            *)
(***************************************************************************)
\* the k-th exchange of the call came back with top-level errors
TopLevelErrorsAt(k) ==
    /\ listing # <<>> /\ k \in DOMAIN listing[1].exchanges
    /\ ~listing[1].exchanges[k].neterr
    /\ listing[1].exchanges[k].status = 200
    /\ listing[1].exchanges[k].errors # <<>>

C28_TopLevelErrorsWin ==
    \A k \in 1..2 :
        TopLevelErrorsAt(k)
        => LET x == listing[1].exchanges[k]
           IN  /\ Do(x).err = <<"saleor graphql error: ", x.errors[1]>>
               /\ Do(x).out = ZeroResp
               /\ Len(listing[1].queries) = k
               /\ listing[1].out.err = <<"saleor graphql error: ", x.errors[1]>>
               /\ listing[1].out.result = <<>>

\* errors beside the data of a restaurant list
C28_Witness ==
    /\ Called("ListRestaurants") /\ TopLevelErrorsAt(1)
    /\ listing[1].exchanges[1].data # <<>>
    /\ listing[1].exchanges[1].data[1].categories # <<>>
    /\ listing[1].out = Return(<<>>, <<"saleor graphql error: ", "g1">>)

\* errors beside the data of the products query of ListDishes
C28_WitnessDishes ==
    /\ Called("ListDishes") /\ TopLevelErrorsAt(2)
    /\ listing[1].exchanges[2].data # <<>>
    /\ listing[1].exchanges[2].data[1].products # <<>>
    /\ listing[1].out = Return(<<>>, <<"saleor graphql error: ", "g1">>)

\* the same for the order: a draftOrderComplete answer with top-level errors
\* beside an order gives the error and no order result
C28_NoOrderResult ==
    \A i \in Invs :
        /\ AnswerTo(i, "draftOrderComplete")
        /\ last[i][1].errors # <<>>
        => /\ pc[i] = "failed"
           /\ ret[i] = [result |-> NoResult,
                        err |-> <<"saleor graphql error: ", last[i][1].errors[1]>>]

C28_WitnessOrder ==
    /\ AnswerTo(1, "draftOrderComplete")
    /\ last[1][1].errors # <<>> /\ last[1][1].data # <<>>
    /\ last[1][1].data[1].order # <<>>
    /\ ret[1].result = NoResult

(***************************************************************************)
(* C29: when the context of a PlaceOrder invocation is cancelled after     *)
(* draftOrderCreate returned an order, the next gateway call is aborted:   *)
(* PlaceOrder fails with the context's error and the zero result, attempts *)
(* no step after the aborted one, and the order stays at the gateway (no   *)
(* call undoes it).                                                        *)
(***************************************************************************)
Canceled == <<"saleor request: ", "context canceled">>

C29_CancelledNeverCompletes ==
    \A i \in Invs :
        cancelled[i]
        => /\ pc[i] # "done"
           /\ pc[i] = "failed" /\ orderID[i] # <<>>
              => /\ ret[i] = [result |-> NoResult, err |-> Canceled]
                 /\ orderID[i] \in orders
                 /\ IsPrefix(OpsOf(i), SagaOps)
                 /\ last[i] = <<NetErr>>

C29_CancelledStep ==
    \A i \in Invs :
        cancelled[i] /\ orderID[i] # <<>> /\ pc'[i] # pc[i]
        => /\ pc'[i] = "failed"
           /\ ret'[i].err = Canceled
           /\ Len(calls'[i]) = Len(calls[i]) + 1
           /\ orders' = orders

C29_CancelAbortsNextCall ==
    []C29_CancelledNeverCompletes /\ [][C29_CancelledStep]_vars

\* cancelled between create and add-lines: add-lines aborted, no complete
C29_Witness ==
    /\ cancelled[1] /\ pc[1] = "failed" /\ orderID[1] # <<>>
    /\ OpsOf(1) = <<"draftOrderCreate", "orderLinesCreate">>
    /\ ret[1].err = Canceled
    /\ orderID[1] \in orders

\* cancelled between add-lines and complete
C29_WitnessCompleting ==
    /\ cancelled[1] /\ pc[1] = "failed"
    /\ OpsOf(1) = SagaOps
    /\ ret[1].err = Canceled
    /\ orderID[1] \in orders

(***************************************************************************)
(* C30: the signature is checked before auth_date and user are looked at:  *)
(* a payload whose hash is not the signature of its fields is rejected as  *)
(* a signature mismatch whatever auth_date and user hold, and the expiry   *)
(* and malformed-field outcomes occur only for correctly signed payloads.  *)
(***************************************************************************)
\* the payload parses and has a hash that is not the signature of its fields
\* under the verifier's token (in either letter case)
MisSigned ==
    /\ verified # <<>>
    /\ ParseQuery(payload).err = <<>>
    /\ Get(Received, KeyHash) # <<>>
    /\ ToLower(Get(Received, KeyHash))
         # ToLower(Signature(verified[1].botToken, Received))

\* the outcomes that come from reading auth_date and user
FieldOutcomes ==
    {Rejected(what) : what \in {"missing auth_date", "invalid auth_date",
                                "auth_date expired", "missing user",
                                "invalid user json", "missing user.id"}}

C30_SignatureCheckedFirst ==
    /\ MisSigned => verified[1].out = SignatureMismatch
    /\ verified # <<>> /\ verified[1].out \in FieldOutcomes
       => /\ ~MisSigned
          /\ Get(Received, KeyHash) # <<>>

\* a payload without auth_date and with a hash that does not match
C30_Witness ==
    /\ MisSigned
    /\ KeyAuthDate \notin DOMAIN Received
    /\ verified[1].out = SignatureMismatch

\* an old payload verified with another token: mismatch, not expiry
C30_WitnessExpired ==
    /\ MisSigned
    /\ payload = signed[1].initData
    /\ verified[1].maxAge > 0
    /\ verified[1].now - signed[1].authDate > verified[1].maxAge
    /\ verified[1].out = SignatureMismatch

\* a payload without user and with a hash that does not match
C30_WitnessNoUser ==
    /\ MisSigned
    /\ KeyUser \notin DOMAIN Received
    /\ verified[1].out = SignatureMismatch

=============================================================================
